---- MODULE Spec2Model ----
(***************************************************************************)
(* Change-order lifecycle: the in-memory store of change orders, the       *)
(* checklist validator, the team decision state machine, the decision      *)
(* e-mail that every decision regenerates, and the HTTP handlers in front  *)
(* of them.                                                                *)
(*                                                                         *)
(* Conventions of the model                                                *)
(*  - a string is a sequence of tokens; a token is a TLA+ string holding   *)
(*    one or more characters.  Text typed by a user is given character by  *)
(*    character where the code inspects characters (trim, escapeHtml, the  *)
(*    e-mail grammar); template literals are given word by word.           *)
(*  - an optional field (`x?: T`) is a sequence of length 0 (undefined)    *)
(*    or 1 (the value).                                                    *)
(*  - a timestamp is the millisecond clock value `new Date()` read.        *)
(*  - numbers are integers.                                                *)
(***************************************************************************)
EXTENDS Integers, Sequences, FiniteSets, TLC

VARIABLES
    store,      \* the module-level array of StoredChangeOrder
    now,        \* Date.now()
    calls,      \* number of store calls / requests made so far
    last,       \* the last completed call: operation, arguments, result
    inflight,   \* requests suspended in an await of their POST handler
    outbox,     \* the mails handed to sendDecisionEmail, in order
    notices,    \* the mails handed to sendEmail, in order
    env         \* process.env

vars == <<store, now, calls, last, inflight, outbox, notices, env>>

-----------------------------------------------------------------------------
(* Bounds of the exploration *)

MaxRecords == 2
MaxTicks == 1
MaxCalls == 3
MaxInflight == 1

-----------------------------------------------------------------------------
(* Optional values, strings *)

None == <<>>
Some(x) == <<x>>
IsSome(o) == Len(o) = 1
\* `o ?? d`
OrElse(o, d) == IF Len(o) = 1 THEN o[1] ELSE d

EmptyStr == <<>>

\* The characters String.prototype.trim (and with it zod's .trim()) removes:
\* the WhiteSpace and LineTerminator characters of ECMAScript.  Those without
\* an escape stand in their literals as they are: vertical tab U+000B,
\* no-break space U+00A0, byte order mark U+FEFF, ogham space mark U+1680.
\* trim removes U+2000 to U+200A, U+2028, U+2029, U+202F, U+205F and U+3000
\* as well; a string literal holding one of these is a lexical error of the
\* parser, so no text of the model contains them.
VerticalTab == ""
NoBreakSpace == " "
ByteOrderMark == "﻿"
OghamSpaceMark == " "
Whitespace ==
    {" ", "\t", "\n", "\r", "\f", VerticalTab, NoBreakSpace, ByteOrderMark, OghamSpaceMark}

RECURSIVE TrimStart(_)
TrimStart(s) ==
    IF s # <<>> /\ Head(s) \in Whitespace THEN TrimStart(Tail(s)) ELSE s

RECURSIVE TrimEnd(_)
TrimEnd(s) ==
    IF s # <<>> /\ s[Len(s)] \in Whitespace
    THEN TrimEnd(SubSeq(s, 1, Len(s) - 1))
    ELSE s

\* String.prototype.trim
\* the string as it is, its whitespace kept
Untrimmed(s) == s

Trim(s) == TrimEnd(TrimStart(s))

RECURSIVE Flatten(_)
Flatten(ss) == IF ss = <<>> THEN <<>> ELSE Head(ss) \o Flatten(Tail(ss))

-----------------------------------------------------------------------------
(* The strict e-mail grammar (strictEmailRegex) *)

Digits == {"0", "1", "2", "3", "4", "5", "6", "7", "8", "9"}
Letters ==
    {"a", "b", "c", "d", "e", "f", "g", "h", "i", "j", "k", "l", "m",
     "n", "o", "p", "q", "r", "s", "t", "u", "v", "w", "x", "y", "z",
     "A", "B", "C", "D", "E", "F", "G", "H", "I", "J", "K", "L", "M",
     "N", "O", "P", "Q", "R", "S", "T", "U", "V", "W", "X", "Y", "Z"}
Alnum == Letters \cup Digits
\* the character class of a local-part atom; the token BACKTICK stands for the
\* grave accent, which a TLA+ string cannot hold
AtomChars ==
    Alnum \cup {"!", "#", "$", "%", "&", "'", "*", "+", "/", "=", "?",
                "^", "_", "BACKTICK", "{", "|", "}", "~", "-"}

\* the pieces of s between occurrences of sep (String.prototype.split)
RECURSIVE SplitOn(_, _)
SplitOn(s, sep) ==
    IF \E i \in 1..Len(s) : s[i] = sep
    THEN LET i == CHOOSE j \in 1..Len(s) :
                    s[j] = sep /\ \A k \in 1..(j - 1) : s[k] # sep
         IN  <<SubSeq(s, 1, i - 1)>> \o SplitOn(SubSeq(s, i + 1, Len(s)), sep)
    ELSE <<s>>

\* one or more atom characters
IsAtom(a) == Len(a) >= 1 /\ \A i \in 1..Len(a) : a[i] \in AtomChars

\* a domain label: alphanumeric at both ends, hyphens inside, at most 63 long
IsDomainLabel(l) ==
    /\ Len(l) >= 1
    /\ Len(l) <= 63
    /\ l[1] \in Alnum
    /\ l[Len(l)] \in Alnum
    /\ \A i \in 1..Len(l) : l[i] \in Alnum \cup {"-"}

\* the negative lookahead: no two consecutive dots anywhere
NoDoubleDot(s) == ~ \E i \in 1..(Len(s) - 1) : s[i] = "." /\ s[i + 1] = "."

\* strictEmailRegex.test(s)
strictEmailRegex(s) ==
    LET parts == SplitOn(s, "@")
        atoms == SplitOn(parts[1], ".")
        labels == SplitOn(parts[2], ".")
    IN  /\ NoDoubleDot(s)
        /\ Len(parts) = 2
        /\ \A i \in 1..Len(atoms) : IsAtom(atoms[i])
        /\ Len(labels) >= 2
        /\ \A i \in 1..Len(labels) : IsDomainLabel(labels[i])

\* isValidEmail(value) of the store
isValidEmail(value) == strictEmailRegex(Trim(value))

-----------------------------------------------------------------------------
(* Checklist validator *)

\* JavaScript numbers are IEEE-754 doubles.  An integer-valued double is written
\* as that integer.  The subnormal doubles k * 2^-1074 (Number.MIN_VALUE is the
\* one with k = 1), which no integer names, are written SubnormalBase + k for
\* k > 0 and -SubnormalBase + k for k < 0, beyond every integer the inputs use,
\* so that the sign of the code is the sign of the double.
SubnormalBase == 1000000000

Subnormal(k) == IF k = 0 THEN 0 ELSE IF k > 0 THEN SubnormalBase + k ELSE k - SubnormalBase

IsSubnormal(x) == x > SubnormalBase \/ x < - SubnormalBase

\* the k of a subnormal k * 2^-1074
Units(x) == IF x > 0 THEN x - SubnormalBase ELSE x + SubnormalBase

\* `a + b`: exact on integers and on subnormals; a subnormal added to a
\* non-zero integer is rounded away
JsPlus(a, b) ==
    IF IsSubnormal(a) /\ IsSubnormal(b) THEN Subnormal(Units(a) + Units(b))
    ELSE IF IsSubnormal(a) THEN (IF b = 0 THEN a ELSE b)
    ELSE IF IsSubnormal(b) THEN (IF a = 0 THEN b ELSE a)
    ELSE a + b

\* the sign test of the quotient taken as a real number, without rounding
DivLeqZeroExact(a, b) ==
    IF b > 0 THEN a <= 0
    ELSE IF b < 0 THEN a >= 0
    ELSE a < 0

\* the sign test `a / b <= 0` of JavaScript numbers (b = 0 gives +-Infinity or
\* NaN).  A subnormal divided by an integer is rounded to the nearest subnormal,
\* ties to even: k * 2^-1074 / b is zero when 2 * |k| <= |b|.
DivLeqZero(a, b) ==
    IF IsSubnormal(a) /\ ~ IsSubnormal(b) /\ b # 0
    THEN LET k == Units(a)
             magnitude == IF k < 0 THEN - k ELSE k
             divisor == IF b < 0 THEN - b ELSE b
         IN  \/ 2 * magnitude <= divisor
             \/ (k < 0) # (b < 0)
    ELSE IF b > 0 THEN a <= 0
    ELSE IF b < 0 THEN a >= 0
    ELSE a < 0

Violation(code, message) == [code |-> code, message |-> message]

\* the per-line-item violations of a multi-item input, in index order
\* the line item loop leaving at the first offending item
LineItemViolationsFirstOnly(lineItems, index) ==
    LET offending == {i \in index..Len(lineItems) :
                        \/ Trim(lineItems[i].description) = EmptyStr
                        \/ lineItems[i].quantity <= 0
                        \/ lineItems[i].unitPrice < 0}
        first == CHOOSE i \in offending : \A j \in offending : i <= j
    IN  IF offending = {} THEN <<>>
        ELSE <<Violation(<<"line_item_", ToString(first), "_invalid">>,
                         <<"Line item ", ToString(first),
                           " needs description, quantity, and unit price.">>)>>

\* the line item loop numbering the items from 0
RECURSIVE LineItemViolationsZeroBased(_, _)
LineItemViolationsZeroBased(lineItems, index) ==
    IF index > Len(lineItems) THEN <<>>
    ELSE LET lineItem == lineItems[index]
             bad == \/ Trim(lineItem.description) = EmptyStr
                    \/ lineItem.quantity <= 0
                    \/ lineItem.unitPrice < 0
         IN  (IF bad
              THEN <<Violation(<<"line_item_", ToString(index - 1), "_invalid">>,
                               <<"Line item ", ToString(index - 1),
                                 " needs description, quantity, and unit price.">>)>>
              ELSE <<>>)
             \o LineItemViolationsZeroBased(lineItems, index + 1)

RECURSIVE LineItemViolations(_, _)
LineItemViolations(lineItems, index) ==
    IF index > Len(lineItems) THEN <<>>
    ELSE LET lineItem == lineItems[index]
             bad == \/ Trim(lineItem.description) = EmptyStr
                    \/ lineItem.quantity <= 0
                    \/ lineItem.unitPrice < 0
         IN  (IF bad
              THEN <<Violation(<<"line_item_", ToString(index), "_invalid">>,
                               <<"Line item ", ToString(index),
                                 " needs description, quantity, and unit price.">>)>>
              ELSE <<>>)
             \o LineItemViolations(lineItems, index + 1)

evaluateChecklist(input) ==
    LET totalCost == JsPlus(JsPlus(input.materialCost, input.laborCost),
                            input.additionalCharges)
        When(cond, v) == IF cond THEN <<v>> ELSE <<>>
    IN  When(Trim(input.scope) = EmptyStr,
             Violation(<<"scope_missing">>, <<"Scope of change order is required.">>))
     \o When(input.quantity <= 0,
             Violation(<<"quantity_missing">>,
                       <<"Quantity/area/amount must be greater than 0.">>))
     \o When(input.materialCost < 0 \/ input.laborCost < 0,
             Violation(<<"pricing_invalid">>,
                       <<"Labor and material pricing must be included and non-negative.">>))
     \o When(input.additionalCharges > 0 /\ Trim(input.additionalChargesReason) = EmptyStr,
             Violation(<<"additional_charges_reason_missing">>,
                       <<"Additional charges must include a clear explanation.">>))
     \o When(input.quantity > 0 /\ DivLeqZero(totalCost, input.quantity),
             Violation(<<"unit_price_unclear">>,
                       <<"Price per unit must be determinable and greater than 0.">>))
     \o When(Trim(input.whyNeeded) = EmptyStr,
             Violation(<<"justification_missing">>,
                       <<"Include why this change order is needed.">>))
     \o When(Trim(input.whyNotInTurnKey) = EmptyStr,
             Violation(<<"turnkey_justification_missing">>,
                       <<"Include why this charge was not in turn-key pricing.">>))
     \o When(Len(input.photos) = 0,
             Violation(<<"photos_missing">>,
                       <<"At least one supporting photo is required.">>))
     \o (IF input.isMultiItem
         THEN When(Len(input.lineItems) < 2,
                   Violation(<<"line_items_missing">>,
                             <<"Multiple-item change orders require at least two line items.">>))
              \o LineItemViolations(input.lineItems, 1)
         ELSE <<>>)

\* 24 * 60 * 60 * 1000
DayMs == 24 * 60 * 60 * 1000

\* A timestamp string is given by what `new Date(s)` makes of it:
\* [parses |-> TRUE, ms |-> t] for an ISO instant, parses = FALSE for text whose
\* getTime() is NaN; `empty` tells the empty string.
IsoString(t) == [parses |-> TRUE, ms |-> t, empty |-> FALSE]
GarbageTimestamp == [parses |-> FALSE, ms |-> 0, empty |-> FALSE]
EmptyTimestamp == [parses |-> FALSE, ms |-> 0, empty |-> TRUE]

\* The clock as one call sees it: `clock` is the sequence of the values its
\* successive reads (Date.now(), new Date()) return, in the order the code
\* makes them.  A read beyond the sequence yields -1, and a call is only taken
\* with as many values as it reads.
Read(clock, i) == IF i \in 1..Len(clock) THEN clock[i] ELSE -1

\* the values left for the reads that follow the first k
ReadsFrom(clock, k) == [i \in 1..(Len(clock) - k) |-> clock[i + k]]

\* isPast24Hours reads the clock once, and only when the timestamp parses
isPast24HoursReads(workPerformedAtIso) == IF workPerformedAtIso.parses THEN 1 ELSE 0

isPast24Hours(workPerformedAtIso, clock) ==
    IF ~ workPerformedAtIso.parses THEN TRUE
    ELSE LET elapsedMs == Read(clock, 1) - workPerformedAtIso.ms
         IN  elapsedMs > DayMs

-----------------------------------------------------------------------------
(* The input schemas.  A payload is a record holding the fields the request    *)
(* body has; a field the body lacks is absent from the record's domain.        *)

\* z.string().email() of zod 3: local part of letters, digits and _ ' + - . that
\* does not start with a dot and ends in a letter, digit or _ + -; domain labels
\* that start alphanumeric; a top-level label of at least two letters
ZodEmail(s) ==
    LET parts == SplitOn(s, "@")
        local == parts[1]
        labels == SplitOn(parts[2], ".")
    IN  /\ NoDoubleDot(s)
        /\ Len(parts) = 2
        /\ Len(local) >= 1
        /\ local[1] # "."
        /\ local[Len(local)] \in Alnum \cup {"_", "+", "-"}
        /\ \A i \in 1..Len(local) : local[i] \in Alnum \cup {"_", "'", "+", "-", "."}
        /\ Len(labels) >= 2
        /\ \A i \in 1..(Len(labels) - 1) :
              /\ Len(labels[i]) >= 1
              /\ labels[i][1] \in Alnum
              /\ \A j \in 1..Len(labels[i]) : labels[i][j] \in Alnum \cup {"-"}
        /\ Len(labels[Len(labels)]) >= 2
        /\ \A j \in 1..Len(labels[Len(labels)]) : labels[Len(labels)][j] \in Letters

\* strictEmailSchema without its .refine(strictEmailRegex.test)
strictEmailSchemaUnrefined(value) ==
    LET trimmed == Trim(value)
    IN  [success |-> ZodEmail(trimmed), data |-> trimmed]

\* strictEmailSchema: trim, then .email(), then the strict grammar
strictEmailSchema(value) ==
    LET trimmed == Trim(value)
    IN  [success |-> ZodEmail(trimmed) /\ strictEmailRegex(trimmed), data |-> trimmed]

\* lineItemSchema.safeParse(item): quantity and unitPrice are required and
\* nonnegative (z.coerce.number() of a missing key is NaN), description
\* defaults to "", and z.object drops every other key.  On failure zod gives
\* no data; the model leaves the item as it was given.
lineItemSchema(item) ==
    LET given == DOMAIN item
        success == /\ {"quantity", "unitPrice"} \subseteq given
                   /\ item.quantity >= 0
                   /\ item.unitPrice >= 0
    IN  [ success |-> success,
          data |-> IF success
                   THEN [ description |-> IF "description" \in given
                                          THEN item.description ELSE EmptyStr,
                          quantity |-> item.quantity,
                          unitPrice |-> item.unitPrice ]
                   ELSE item ]

InputFields ==
    { "projectId", "contractorName", "contractorEmail", "workPerformedAt", "scope",
      "quantity", "unitLabel", "materialCost", "laborCost", "additionalCharges",
      "additionalChargesReason", "whyNeeded", "whyNotInTurnKey", "photos",
      "isMultiItem", "lineItems" }

\* the fields of changeOrderInputSchema that carry a .default(...)
InputDefaults ==
    [ additionalChargesReason |-> EmptyStr,
      photos |-> <<>>,
      isMultiItem |-> FALSE,
      lineItems |-> <<>> ]

\* whether the value of one field passes its validator in changeOrderInputSchema
FieldOk(field, v) ==
    CASE field \in {"projectId", "contractorName", "scope", "unitLabel",
                    "whyNeeded", "whyNotInTurnKey"} -> Len(v) >= 1
      [] field = "workPerformedAt" -> ~ v.empty
      [] field = "contractorEmail" -> strictEmailSchema(v).success
      [] field = "quantity" -> v > 0
      [] field \in {"materialCost", "laborCost", "additionalCharges"} -> v >= 0
      [] field = "lineItems" -> \A i \in 1..Len(v) : lineItemSchema(v[i]).success
      [] OTHER -> TRUE

\* the parsed value of one field
FieldData(field, v) ==
    IF field = "contractorEmail" THEN strictEmailSchema(v).data
    ELSE IF field = "lineItems" THEN [i \in 1..Len(v) |-> lineItemSchema(v[i]).data]
    ELSE v

\* changeOrderInputSchema.safeParse(payload): a required field that is missing
\* fails the parse.  On success the data has every field of the schema, the
\* defaults filled in; on failure zod gives no data, and the model gives the
\* fields the body has or the schema defaults.
changeOrderInputSchema(payload) ==
    LET present == DOMAIN payload \cap InputFields
        required == InputFields \ DOMAIN InputDefaults
    IN  [ success |-> /\ required \subseteq present
                      /\ \A f \in present : FieldOk(f, payload[f]),
          data |-> [f \in present \cup DOMAIN InputDefaults |->
                        IF f \in present THEN FieldData(f, payload[f])
                        ELSE InputDefaults[f]] ]

\* changeOrderDraftInputSchema = changeOrderInputSchema.partial(): every field
\* is optional, a field that is given is validated
changeOrderDraftInputSchema(payload) ==
    LET present == DOMAIN payload \cap InputFields
    IN  [ success |-> \A f \in present : FieldOk(f, payload[f]),
          data |-> [f \in present |-> FieldData(f, payload[f])] ]

\* the `??` defaults of normalizeDraftInput
DraftDefaults ==
    [ projectId |-> <<"POC-DEMO-001">>,
      contractorName |-> EmptyStr,
      contractorEmail |-> EmptyStr,
      workPerformedAt |-> EmptyTimestamp,
      scope |-> EmptyStr,
      quantity |-> 0,
      unitLabel |-> <<"sq ft">>,
      materialCost |-> 0,
      laborCost |-> 0,
      additionalCharges |-> 0,
      additionalChargesReason |-> EmptyStr,
      whyNeeded |-> EmptyStr,
      whyNotInTurnKey |-> EmptyStr,
      photos |-> <<>>,
      isMultiItem |-> FALSE,
      lineItems |-> <<>> ]

normalizeDraftInput(input) ==
    [f \in InputFields |-> IF f \in DOMAIN input THEN input[f] ELSE DraftDefaults[f]]

-----------------------------------------------------------------------------
(* The store: records and the decision e-mail *)

TeamQueueStatuses == {"NEW", "IN_REVIEW", "NEEDS_INFO", "APPROVED", "DENIED"}

\* the record literal shared by saveDraft, saveSubmission and saveBlocked: the
\* clock is read for the id, again for createdAt and again for updatedAt
NewRecord(status, input, submittedAt, blockingReasons, clock, rand) ==
    [ id |-> <<"co_", Read(clock, 1), "_", rand>>,
      createdAt |-> Read(clock, 2),
      updatedAt |-> Read(clock, 3),
      submittedAt |-> submittedAt,
      status |-> status,
      input |-> input,
      blockingReasons |-> blockingReasons,
      teamStatus |-> "NEW",
      reviewerNotes |-> EmptyStr,
      decisionStatus |-> "PENDING",
      decisionAt |-> None,
      decisionBy |-> None,
      approvedAmount |-> None,
      denialReasonCode |-> None,
      decisionExplanation |-> None,
      contractorFacingMessage |-> None,
      needsInfoChecklist |-> <<>>,
      isFinalized |-> FALSE,
      decisionEmailStatus |-> "PENDING",
      decisionEmailSentAt |-> None,
      decisionEmailTo |-> None,
      decisionEmailSubject |-> None,
      decisionEmailBody |-> None,
      decisionEmailHtml |-> None,
      decisionEmailError |-> None,
      decisionEmailPreviewUrl |-> None,
      decisionEmailMode |-> None ]

\* store.findIndex((item) => item.id === id); -1 when no item matches
findIndex(st, id) ==
    IF \E i \in 1..Len(st) : st[i].id = id
    THEN CHOOSE i \in 1..Len(st) :
            st[i].id = id /\ \A j \in 1..(i - 1) : st[j].id # id
    ELSE -1

\* A stored record is a record of the fields it has; a field it lacks is absent
\* from its domain.  The fields normalizeRecord gives a value whatever the
\* record holds, with the right-hand sides of their `??` (None is undefined);
\* `stamp` is what `record.createdAt ?? new Date().toISOString()` gives.
NormalizeDefaults(stamp) ==
    [ updatedAt |-> stamp,
      teamStatus |-> "NEW",
      decisionStatus |-> "PENDING",
      needsInfoChecklist |-> <<>>,
      reviewerNotes |-> EmptyStr,
      isFinalized |-> FALSE,
      decisionEmailStatus |-> "PENDING",
      decisionEmailError |-> None,
      decisionEmailPreviewUrl |-> None,
      decisionEmailMode |-> None,
      decisionEmailHtml |-> None ]

\* the record with, for each field it lacks, the value `defaults` has for it
WithDefaults(record, defaults) ==
    IF DOMAIN defaults \subseteq DOMAIN record THEN record
    ELSE [f \in DOMAIN record \cup DOMAIN defaults |->
            IF f \in DOMAIN record THEN record[f] ELSE defaults[f]]

\* normalizeRecord reads the clock when the record has neither updatedAt nor
\* createdAt
normalizeRecordReads(record) ==
    IF "updatedAt" \in DOMAIN record \/ "createdAt" \in DOMAIN record THEN 0 ELSE 1

normalizeRecord(record, clock) ==
    LET stamp == IF "createdAt" \in DOMAIN record THEN record.createdAt
                 ELSE Read(clock, 1)
        filled == WithDefaults(record, NormalizeDefaults(stamp))
    IN  [filled EXCEPT
            !.teamStatus =
                IF filled.teamStatus \in {"DENIED", "APPROVED", "NEEDS_INFO"}
                THEN filled.teamStatus
                ELSE IF filled.teamStatus = "IN_REVIEW" THEN "IN_REVIEW" ELSE "NEW"]

RECURSIVE Reverse(_)
Reverse(s) == IF s = <<>> THEN <<>> ELSE Reverse(Tail(s)) \o <<Head(s)>>

\* the clock reads store.map(normalizeRecord) makes on the first n records
RECURSIVE listChangeOrdersReads(_, _)
listChangeOrdersReads(st, n) ==
    IF n = 0 THEN 0
    ELSE listChangeOrdersReads(st, n - 1) + normalizeRecordReads(st[n])

listChangeOrders(st, clock) ==
    Reverse([i \in 1..Len(st) |->
                normalizeRecord(st[i], ReadsFrom(clock, listChangeOrdersReads(st, i - 1)))])

\* the clock reads getChangeOrderById makes
getChangeOrderByIdReads(st, id) ==
    IF findIndex(st, id) = -1 THEN 0 ELSE normalizeRecordReads(st[findIndex(st, id)])

\* the record, wrapped as an optional: None is null
getChangeOrderById(st, id, clock) ==
    LET index == findIndex(st, id)
    IN  IF index = -1 THEN None ELSE Some(normalizeRecord(st[index], clock))

escapeToken(c) ==
    CASE c = "&" -> "&amp;"
      [] c = "<" -> "&lt;"
      [] c = ">" -> "&gt;"
      [] c = "\"" -> "&quot;"
      [] c = "'" -> "&#39;"
      [] OTHER -> c

escapeHtml(value) == [i \in 1..Len(value) |-> escapeToken(value[i])]

\* Number.prototype.toFixed(2): an integer with two zero decimals; a subnormal
\* rounds to zero and keeps its sign
toFixed2(n) ==
    IF IsSubnormal(n) THEN (IF n < 0 THEN <<"-0.00">> ELSE <<"0.00">>)
    ELSE <<ToString(n), ".00">>

\* lines.map(f).join(sep)
RECURSIVE JoinMap(_, _, _, _)
JoinMap(lines, before, after, sep) ==
    IF lines = <<>> THEN <<>>
    ELSE before \o Head(lines) \o after
         \o (IF Len(lines) > 1 THEN sep ELSE <<>>)
         \o JoinMap(Tail(lines), before, after, sep)

\* The static markup of the html templates is abbreviated to one token per block.
buildDecisionEmailContent(record) ==
    LET projectLabel == IF record.input.projectId # EmptyStr
                        THEN record.input.projectId ELSE <<"your project">>
        contractorName == IF record.input.contractorName # EmptyStr
                          THEN record.input.contractorName ELSE <<"Contractor">>
        accentColor == IF record.decisionStatus = "DENIED" THEN "#be123c"
                       ELSE IF record.decisionStatus = "APPROVED" THEN "#166534"
                       ELSE "#0f4f8b"
        message == OrElse(record.contractorFacingMessage, EmptyStr)
        messageBlock == escapeHtml(message)
        messageText == IF message # EmptyStr
                       THEN <<"\n\nMessage from Remi:\n">> \o message ELSE <<>>
        messageHtml == IF messageBlock # EmptyStr
                       THEN <<"<p><strong>Message from Remi:</strong><br/>">>
                            \o messageBlock \o <<"</p>">>
                       ELSE <<>>
        thanks == <<"\n\nThank you,\nRemi Change Orders Team">>
        wrapHtml(inner) ==
            <<"<div><div>", "<header/>", "<div>">> \o inner
            \o <<"</div>", "<footer>This message was sent for project ">>
            \o escapeHtml(projectLabel) \o <<".</footer>", "</div></div>">>
        amount == IF IsSome(record.approvedAmount)
                  THEN toFixed2(record.approvedAmount[1]) ELSE <<"0.00">>
        reason == IF IsSome(record.denialReasonCode)
                  THEN <<record.denialReasonCode[1]>> ELSE <<"N/A">>
        requestedItems ==
            IF Len(record.needsInfoChecklist) > 0
            THEN JoinMap(record.needsInfoChecklist, <<"- ">>, <<>>, <<"\n">>)
            ELSE <<"- Additional details requested.">>
        listHtml ==
            IF Len(record.needsInfoChecklist) > 0
            THEN <<"<ul>">>
                 \o JoinMap([i \in 1..Len(record.needsInfoChecklist) |->
                                escapeHtml(record.needsInfoChecklist[i])],
                            <<"<li>">>, <<"</li>">>, <<>>)
                 \o <<"</ul>">>
            ELSE <<"<p>Additional details requested.</p>">>
    IN  IF record.decisionStatus = "APPROVED" THEN
            [ subject |-> <<"Change order ", "approved", " - ">> \o projectLabel,
              body |-> <<"Hello ">> \o contractorName \o <<",">>
                       \o <<"\n\nYour change order has been ", "approved", ".">>
                       \o <<"\nProject: ">> \o projectLabel
                       \o <<"\nApproved amount: $">> \o amount
                       \o messageText \o thanks,
              html |-> wrapHtml(<<"<p>Hello ">> \o escapeHtml(contractorName) \o <<",</p>">>
                                \o <<"<p>Your change order has been <strong ", accentColor,
                                     ">approved</strong>.</p>">>
                                \o <<"<p><strong>Project:</strong> ">> \o escapeHtml(projectLabel)
                                \o <<"</p><p><strong>Approved amount:</strong> $">> \o amount
                                \o <<"</p>">> \o messageHtml) ]
        ELSE IF record.decisionStatus = "DENIED" THEN
            [ subject |-> <<"Change order ", "denied", " - ">> \o projectLabel,
              body |-> <<"Hello ">> \o contractorName \o <<",">>
                       \o <<"\n\nYour change order has been ", "denied", ".">>
                       \o <<"\nProject: ">> \o projectLabel
                       \o <<"\nReason: ">> \o reason
                       \o messageText \o thanks,
              html |-> wrapHtml(<<"<p>Hello ">> \o escapeHtml(contractorName) \o <<",</p>">>
                                \o <<"<p>Your change order has been <strong ", accentColor,
                                     ">denied</strong>.</p>">>
                                \o <<"<p><strong>Project:</strong> ">> \o escapeHtml(projectLabel)
                                \o <<"</p><p><strong>Reason code:</strong> ">> \o escapeHtml(reason)
                                \o <<"</p>">> \o messageHtml) ]
        ELSE
            [ subject |-> <<"More information needed", " - ">> \o projectLabel,
              body |-> <<"Hello ">> \o contractorName \o <<",">>
                       \o <<"\n\nWe need more information to review your change order.">>
                       \o <<"\nProject: ">> \o projectLabel
                       \o <<"\n\nRequested items:\n">> \o requestedItems
                       \o messageText \o thanks,
              html |-> wrapHtml(<<"<p>Hello ">> \o escapeHtml(contractorName) \o <<",</p>">>
                                \o <<"<p>We need <strong ", accentColor,
                                     ">more information</strong> to review your change order.</p>">>
                                \o <<"<p><strong>Project:</strong> ">> \o escapeHtml(projectLabel)
                                \o <<"</p><p><strong>Requested items:</strong></p>">>
                                \o listHtml \o messageHtml) ]

\* prepareDecisionEmail keeping a subject and body the record already has
prepareDecisionEmailKeepingContent(record) ==
    LET to == Trim(record.input.contractorEmail)
        content == buildDecisionEmailContent(record)
    IN  [record EXCEPT
            !.decisionEmailStatus = "PENDING",
            !.decisionEmailSentAt = None,
            !.decisionEmailTo = Some(to),
            !.decisionEmailSubject =
                IF IsSome(@) THEN @ ELSE Some(content.subject),
            !.decisionEmailBody = IF IsSome(@) THEN @ ELSE Some(content.body),
            !.decisionEmailHtml = IF IsSome(@) THEN @ ELSE Some(content.html),
            !.decisionEmailError = None,
            !.decisionEmailPreviewUrl = None]

prepareDecisionEmail(record) ==
    LET to == Trim(record.input.contractorEmail)
        content == buildDecisionEmailContent(record)
    IN  [record EXCEPT
            !.decisionEmailStatus = "PENDING",
            !.decisionEmailSentAt = None,
            !.decisionEmailTo = Some(to),
            !.decisionEmailSubject = Some(content.subject),
            !.decisionEmailBody = Some(content.body),
            !.decisionEmailHtml = Some(content.html),
            !.decisionEmailError = None,
            !.decisionEmailPreviewUrl = None]

-----------------------------------------------------------------------------
(* The store: operations.  Each gives the new store, the value returned and    *)
(* the number of times it read the clock.                                      *)

Result(st, ret, reads) == [store |-> st, ret |-> ret, reads |-> reads]

\* saveDraft refusing to keep an input the checklist rejects as a draft
saveDraftValidated(st, input, clock, rand) ==
    LET violations == evaluateChecklist(input)
        reasons == [i \in 1..Len(violations) |-> violations[i].message]
        record == IF Len(violations) > 0
                  THEN NewRecord("BLOCKED", input, None, Some(reasons), clock, rand)
                  ELSE NewRecord("DRAFT", input, None, None, clock, rand)
    IN  Result(Append(st, record), Some(record), 3)

saveDraft(st, input, clock, rand) ==
    LET record == NewRecord("DRAFT", input, None, None, clock, rand)
    IN  Result(Append(st, record), Some(record), 3)

\* saveSubmission writing the submission over the latest record when that is a draft
saveSubmissionOverDraft(st, input, clock, rand) ==
    LET record == NewRecord("SUBMITTED", input, Some(Read(clock, 4)), None, clock, rand)
    IN  IF Len(st) > 0 /\ st[Len(st)].status = "DRAFT"
        THEN Result([st EXCEPT ![Len(st)] = record], Some(record), 4)
        ELSE Result(Append(st, record), Some(record), 4)

\* the clock is read a fourth time for submittedAt
saveSubmission(st, input, clock, rand) ==
    LET record == NewRecord("SUBMITTED", input, Some(Read(clock, 4)), None, clock, rand)
    IN  Result(Append(st, record), Some(record), 4)

\* saveBlocked stamping the record with submittedAt as saveSubmission does
saveBlockedStamped(st, input, blockingReasons, clock, rand) ==
    LET record == NewRecord("BLOCKED", input, Some(Read(clock, 4)), Some(blockingReasons),
                            clock, rand)
    IN  Result(Append(st, record), Some(record), 4)

saveBlocked(st, input, blockingReasons, clock, rand) ==
    LET record == NewRecord("BLOCKED", input, None, Some(blockingReasons), clock, rand)
    IN  Result(Append(st, record), Some(record), 3)

\* updateTeamQueueItem writing updates.teamStatus as given, without `?? current.teamStatus`
updateTeamQueueItemResetting(st, id, updates, clock) ==
    LET index == findIndex(st, id)
        current == st[index]
        next == [current EXCEPT
                    !.teamStatus = OrElse(updates.teamStatus, "NEW"),
                    !.reviewerNotes = OrElse(updates.reviewerNotes, current.reviewerNotes),
                    !.updatedAt = Read(clock, 1)]
    IN  IF index = -1 THEN Result(st, None, 0)
        ELSE IF current.isFinalized THEN Result(st, Some(current), 0)
        ELSE Result([st EXCEPT ![index] = next], Some(next), 1)

\* updateTeamQueueItem taking a record it moves back to review out of its decision
updateTeamQueueItemReopening(st, id, updates, clock) ==
    LET index == findIndex(st, id)
        current == st[index]
        next == [current EXCEPT
                    !.teamStatus = OrElse(updates.teamStatus, current.teamStatus),
                    !.reviewerNotes = OrElse(updates.reviewerNotes, current.reviewerNotes),
                    !.decisionStatus =
                        IF updates.teamStatus = Some("IN_REVIEW") THEN "PENDING"
                        ELSE current.decisionStatus,
                    !.updatedAt = Read(clock, 1)]
    IN  IF index = -1 THEN Result(st, None, 0)
        ELSE IF current.isFinalized THEN Result(st, Some(current), 0)
        ELSE Result([st EXCEPT ![index] = next], Some(next), 1)

\* updateTeamQueueItem without its `if (current.isFinalized) return current`
updateTeamQueueItemUnlatched(st, id, updates, clock) ==
    LET index == findIndex(st, id)
        current == st[index]
        next == [current EXCEPT
                    !.teamStatus = OrElse(updates.teamStatus, current.teamStatus),
                    !.reviewerNotes = OrElse(updates.reviewerNotes, current.reviewerNotes),
                    !.updatedAt = Read(clock, 1)]
    IN  IF index = -1 THEN Result(st, None, 0)
        ELSE Result([st EXCEPT ![index] = next], Some(next), 1)

updateTeamQueueItem(st, id, updates, clock) ==
    LET index == findIndex(st, id)
        current == st[index]
        next == [current EXCEPT
                    !.teamStatus = OrElse(updates.teamStatus, current.teamStatus),
                    !.reviewerNotes = OrElse(updates.reviewerNotes, current.reviewerNotes),
                    !.updatedAt = Read(clock, 1)]
    IN  IF index = -1 THEN Result(st, None, 0)
        ELSE IF current.isFinalized THEN Result(st, Some(current), 0)
        ELSE Result([st EXCEPT ![index] = next], Some(next), 1)

\* the first `next` of applyTeamDecision dropping the blocking reasons of the
\* record under review
DecisionBaseClearingReasons(current, decision, clock) ==
    [current EXCEPT
        !.blockingReasons = None,
        !.teamStatus = "IN_REVIEW",
        !.updatedAt = Read(clock, 1),
        !.decisionAt = Some(Read(clock, 1)),
        !.decisionBy = Some(decision.decidedBy),
        !.decisionExplanation = Some(decision.decisionExplanation),
        !.contractorFacingMessage =
            Some(OrElse(decision.contractorFacingMessage, EmptyStr))]

\* applyTeamDecision, the record it starts from: `next` as first assigned, both
\* stamps from the one `const now = new Date().toISOString()`
DecisionBase(current, decision, clock) ==
    [current EXCEPT
        !.teamStatus = "IN_REVIEW",
        !.updatedAt = Read(clock, 1),
        !.decisionAt = Some(Read(clock, 1)),
        !.decisionBy = Some(decision.decidedBy),
        !.decisionExplanation = Some(decision.decisionExplanation),
        !.contractorFacingMessage =
            Some(OrElse(decision.contractorFacingMessage, EmptyStr))]

\* the NEEDS_INFO branch closing the record as the other two branches do
NeedsInfoRecordFinal(next, decision) ==
    prepareDecisionEmail(
        [next EXCEPT
            !.teamStatus = "NEEDS_INFO",
            !.decisionStatus = "NEEDS_INFO",
            !.needsInfoChecklist = decision.needsInfoChecklist,
            !.approvedAmount = None,
            !.denialReasonCode = None,
            !.isFinalized = TRUE])

\* applyTeamDecision, the body of `if (decision.action === "NEEDS_INFO")`
NeedsInfoRecord(next, decision) ==
    prepareDecisionEmail(
        [next EXCEPT
            !.teamStatus = "NEEDS_INFO",
            !.decisionStatus = "NEEDS_INFO",
            !.needsInfoChecklist = decision.needsInfoChecklist,
            !.approvedAmount = None,
            !.denialReasonCode = None,
            !.isFinalized = FALSE])

\* the APPROVE branch without `needsInfoChecklist: []`
ApprovedRecordKeepingChecklist(next, decision) ==
    prepareDecisionEmail(
        [next EXCEPT
            !.teamStatus = "APPROVED",
            !.decisionStatus = "APPROVED",
            !.approvedAmount = decision.approvedAmount,
            !.denialReasonCode = None,
            !.isFinalized = TRUE])

\* applyTeamDecision, the body of `if (decision.action === "APPROVE")`
ApprovedRecord(next, decision) ==
    prepareDecisionEmail(
        [next EXCEPT
            !.teamStatus = "APPROVED",
            !.decisionStatus = "APPROVED",
            !.approvedAmount = decision.approvedAmount,
            !.denialReasonCode = None,
            !.needsInfoChecklist = <<>>,
            !.isFinalized = TRUE])

\* the DENY branch without `needsInfoChecklist: []`
DeniedRecordKeepingChecklist(next, decision) ==
    prepareDecisionEmail(
        [next EXCEPT
            !.teamStatus = "DENIED",
            !.decisionStatus = "DENIED",
            !.denialReasonCode = decision.denialReasonCode,
            !.approvedAmount = None,
            !.isFinalized = TRUE])

\* the DENY branch without `isFinalized: true`
DeniedRecordLeftOpen(next, decision) ==
    prepareDecisionEmail(
        [next EXCEPT
            !.teamStatus = "DENIED",
            !.decisionStatus = "DENIED",
            !.denialReasonCode = decision.denialReasonCode,
            !.approvedAmount = None,
            !.needsInfoChecklist = <<>>])

\* applyTeamDecision, the body of `if (decision.action === "DENY")`
DeniedRecord(next, decision) ==
    prepareDecisionEmail(
        [next EXCEPT
            !.teamStatus = "DENIED",
            !.decisionStatus = "DENIED",
            !.denialReasonCode = decision.denialReasonCode,
            !.approvedAmount = None,
            !.needsInfoChecklist = <<>>,
            !.isFinalized = TRUE])

\* the record applyTeamDecision builds from a non-finalized record: the three
\* `if` statements in the order the code runs them
DecidedRecord(current, decision, clock) ==
    LET base == DecisionBase(current, decision, clock)
        afterNeedsInfo ==
            IF decision.action = "NEEDS_INFO" THEN NeedsInfoRecord(base, decision) ELSE base
        afterApprove ==
            IF decision.action = "APPROVE"
            THEN ApprovedRecord(afterNeedsInfo, decision) ELSE afterNeedsInfo
        afterDeny ==
            IF decision.action = "DENY"
            THEN DeniedRecord(afterApprove, decision) ELSE afterApprove
    IN  afterDeny

\* applyTeamDecision without its `if (current.isFinalized) return current`
applyTeamDecisionUnlatched(st, id, decision, clock) ==
    LET index == findIndex(st, id)
        next == DecidedRecord(st[index], decision, clock)
    IN  IF index = -1 THEN Result(st, None, 0)
        ELSE Result([st EXCEPT ![index] = next], Some(next), 1)

\* applyTeamDecision letting a DENY through to a finalized record
applyTeamDecisionDenyOverrides(st, id, decision, clock) ==
    LET index == findIndex(st, id)
        current == st[index]
        next == DecidedRecord(current, decision, clock)
    IN  IF index = -1 THEN Result(st, None, 0)
        ELSE IF current.isFinalized /\ decision.action # "DENY"
             THEN Result(st, Some(current), 0)
        ELSE Result([st EXCEPT ![index] = next], Some(next), 1)

applyTeamDecision(st, id, decision, clock) ==
    LET index == findIndex(st, id)
        current == st[index]
        next == DecidedRecord(current, decision, clock)
    IN  IF index = -1 THEN Result(st, None, 0)
        ELSE IF current.isFinalized THEN Result(st, Some(current), 0)
        ELSE Result([st EXCEPT ![index] = next], Some(next), 1)

\* updateDecisionEmailDelivery reopening the decision when the delivery failed
updateDecisionEmailDeliveryReopening(st, id, delivery, clock) ==
    LET index == findIndex(st, id)
        current == normalizeRecord(st[index], clock)
        normalized == normalizeRecordReads(st[index])
        stamped == normalized + (IF IsSome(delivery.sentAt) THEN 0 ELSE 1)
        next == [current EXCEPT
                    !.decisionEmailStatus = delivery.status,
                    !.decisionEmailSentAt =
                        Some(OrElse(delivery.sentAt, Read(clock, stamped))),
                    !.decisionEmailError = delivery.error,
                    !.decisionEmailPreviewUrl = delivery.previewUrl,
                    !.decisionEmailMode = delivery.mode,
                    !.isFinalized = current.isFinalized /\ delivery.status # "FAILED",
                    !.updatedAt = Read(clock, stamped + 1)]
    IN  IF index = -1 THEN Result(st, None, 0)
        ELSE Result([st EXCEPT ![index] = next], Some(next), stamped + 1)

\* updateDecisionEmailDelivery keeping the stored value of a field the call omits
updateDecisionEmailDeliveryMerging(st, id, delivery, clock) ==
    LET index == findIndex(st, id)
        current == normalizeRecord(st[index], clock)
        normalized == normalizeRecordReads(st[index])
        stamped == normalized + (IF IsSome(delivery.sentAt) THEN 0 ELSE 1)
        next == [current EXCEPT
                    !.decisionEmailStatus = delivery.status,
                    !.decisionEmailSentAt =
                        Some(OrElse(delivery.sentAt, Read(clock, stamped))),
                    !.decisionEmailError =
                        IF IsSome(delivery.error) THEN delivery.error
                        ELSE current.decisionEmailError,
                    !.decisionEmailPreviewUrl =
                        IF IsSome(delivery.previewUrl) THEN delivery.previewUrl
                        ELSE current.decisionEmailPreviewUrl,
                    !.decisionEmailMode =
                        IF IsSome(delivery.mode) THEN delivery.mode
                        ELSE current.decisionEmailMode,
                    !.updatedAt = Read(clock, stamped + 1)]
    IN  IF index = -1 THEN Result(st, None, 0)
        ELSE Result([st EXCEPT ![index] = next], Some(next), stamped + 1)

\* The clock is read by normalizeRecord when the stored record has no
\* timestamp, then for decisionEmailSentAt when the delivery gives no sentAt,
\* then for updatedAt.
updateDecisionEmailDelivery(st, id, delivery, clock) ==
    LET index == findIndex(st, id)
        current == normalizeRecord(st[index], clock)
        normalized == normalizeRecordReads(st[index])
        stamped == normalized + (IF IsSome(delivery.sentAt) THEN 0 ELSE 1)
        next == [current EXCEPT
                    !.decisionEmailStatus = delivery.status,
                    !.decisionEmailSentAt =
                        Some(OrElse(delivery.sentAt, Read(clock, stamped))),
                    !.decisionEmailError = delivery.error,
                    !.decisionEmailPreviewUrl = delivery.previewUrl,
                    !.decisionEmailMode = delivery.mode,
                    !.updatedAt = Read(clock, stamped + 1)]
    IN  IF index = -1 THEN Result(st, None, 0)
        ELSE Result([st EXCEPT ![index] = next], Some(next), stamped + 1)

hasValidContractorEmail(record) == isValidEmail(record.input.contractorEmail)

-----------------------------------------------------------------------------
(* The values the calls are made with *)

\* Math.floor(Math.random() * 1000): the two ends of 0..999
RandomDraws == {0, 999}

\* The draws a record is created with under `clock` in store `st`.  The draw is
\* read only as a part of the identifier, and identifiers are only compared:
\* when no stored identifier carries a millisecond the clock gives to the call,
\* the new identifier differs from every stored one whatever the draw, and one
\* draw stands for all.
DrawsFor(st, clock) ==
    IF \E i \in 1..Len(st), k \in 1..Len(clock) : st[i].id[2] = clock[k]
    THEN RandomDraws
    ELSE {CHOOSE rand \in RandomDraws : TRUE}

ValidEmail == <<"a", "n", "@", "x", ".", "i", "o">>

\* a complete change order for work performed at the instant the clock starts
CompleteInput ==
    [ projectId |-> <<"P", "-", "7">>,
      contractorName |-> <<"A", "&", "B">>,
      contractorEmail |-> ValidEmail,
      workPerformedAt |-> IsoString(0),
      scope |-> <<"d", "e", "c", "k">>,
      quantity |-> 2,
      unitLabel |-> <<"sq ft">>,
      materialCost |-> 40,
      laborCost |-> 60,
      additionalCharges |-> 0,
      additionalChargesReason |-> EmptyStr,
      whyNeeded |-> <<"r", "o", "t">>,
      whyNotInTurnKey |-> <<"h", "i", "d", "d", "e", "n">>,
      photos |-> << <<"data:image/png;base64,AAAA">> >>,
      isMultiItem |-> FALSE,
      lineItems |-> <<>> ]

\* the inputs the store functions are called with directly
Inputs == {CompleteInput}

\* the reason lists saveBlocked is called with directly
ReasonLists ==
    { << <<"At least one supporting photo is required.">> >> }

Decision(action, by, message, amount, code, checklist) ==
    [ action |-> action,
      decidedBy |-> by,
      decisionExplanation |-> <<"reviewed on site">>,
      contractorFacingMessage |-> message,
      approvedAmount |-> amount,
      denialReasonCode |-> code,
      needsInfoChecklist |-> checklist ]

\* the DecisionInput values applyTeamDecision is called with
Decisions ==
    { Decision("NEEDS_INFO", <<"ana">>, None, None, None, << <<"invoice">> >>),
      Decision("NEEDS_INFO", <<"bo">>, Some(<<"send ", "<", "all", ">">>), None, None,
               << <<"permit">>, <<"photo of ", "\"", "deck", "\"">> >>),
      Decision("APPROVE", <<"bo">>, Some(<<"ok">>), Some(250), None, <<>>),
      Decision("DENY", <<"ana">>, None, None, Some("DUPLICATE_REQUEST"), <<>>) }

QueueUpdate(teamStatus, reviewerNotes) ==
    [teamStatus |-> teamStatus, reviewerNotes |-> reviewerNotes]

\* the updates updateTeamQueueItem is called with
QueueUpdates ==
    { QueueUpdate(Some("IN_REVIEW"), None),
      QueueUpdate(Some("APPROVED"), Some(<<"on hold">>)),
      QueueUpdate(None, Some(<<"call back">>)) }

Delivery(status, error, previewUrl, sentAt, mode) ==
    [ status |-> status, error |-> error, previewUrl |-> previewUrl,
      sentAt |-> sentAt, mode |-> mode ]

InvalidEmailError == <<"Invalid contractor email address.">>

\* the delivery outcomes updateDecisionEmailDelivery is called with
Deliveries ==
    { Delivery("SENT", None, Some(<<"https://preview/1">>), None, Some("preview")),
      Delivery("FAILED", Some(<<"connection refused">>), None, Some(0), None) }

\* an identifier no record has
UnknownId == <<"co_", -1, "_", 0>>

\* the identifiers calls are made with: every stored one and an unknown one
CallIds == {store[i].id : i \in 1..Len(store)} \cup {UnknownId}

\* The arguments a call on `id` is made with.  A call on an identifier that no
\* record has returns before it reads its argument, so one argument stands for all.
ArgsFor(id, args) ==
    IF findIndex(store, id) = -1 THEN {CHOOSE a \in args : TRUE} ELSE args

-----------------------------------------------------------------------------
(* The store called directly: any sequence of calls *)

\* the record store.find(item => item.id === id) yields, as stored
Stored(st, id) == IF findIndex(st, id) = -1 THEN None ELSE Some(st[findIndex(st, id)])

\* What is remembered of the latest call: the operation, its arguments, the
\* value it returned, `at`, the values its clock reads gave, and `pre`, the
\* store as it found it.  `http` is the status of the response, 0 when the call
\* is no HTTP response.
Response(op, id, arg, clock, http, ret) ==
    [ op |-> op, id |-> id, arg |-> arg, ret |-> ret, http |-> http,
      at |-> clock, pre |-> store ]
Call(op, id, arg, clock, ret) == Response(op, id, arg, clock, 0, ret)
NoCall ==
    [ op |-> "none", id |-> UnknownId, arg |-> <<>>, ret |-> None, http |-> 0,
      at |-> <<>>, pre |-> <<>> ]

\* what n successive reads of a clock standing at `from` can give: the clock
\* never runs backwards
RECURSIVE ClockReads(_, _)
ClockReads(from, n) ==
    IF n = 0 THEN {<<>>}
    ELSE UNION {{<<t>> \o rest : rest \in ClockReads(t, n - 1)} : t \in from..MaxTicks}

\* The clocks a call starting now can be given when it reads n times.  Which
\* clocks a call can be given is settled by how often it reads; what a store
\* function reads does not bear on how often it reads, so its count is taken
\* from a run of it on a clock that has no value.
ClocksOf(n) == ClockReads(now, n)
Unread == <<>>

\* where the clock stands after the reads of `clock`
ClockAfter(clock) == IF clock = <<>> THEN now ELSE clock[Len(clock)]

\* the clocks of a call that reads n times and has read `checked` so far
ClocksAfter(checked, n) ==
    {checked \o rest : rest \in ClockReads(ClockAfter(checked), n - Len(checked))}

\* process.env as the handlers read it: NEW_CO_NOTIFY_TO is not set, or holds
\* the address of the team with a space before it.  The store functions read
\* none of it.
Environments ==
    { [NEW_CO_NOTIFY_TO |-> None],
      [NEW_CO_NOTIFY_TO |-> Some(<<" ", "t", "e", "a", "m", "@", "x", ".", "i", "o">>)] }

Init ==
    /\ store = <<>>
    /\ now = 0
    /\ calls = 0
    /\ last = NoCall
    /\ inflight = [slot \in 1..MaxInflight |-> [pc |-> "idle"]]
    /\ outbox = <<>>
    /\ notices = <<>>
    /\ env = [NEW_CO_NOTIFY_TO |-> None]

\* time passes
Tick ==
    /\ now < MaxTicks
    /\ now' = now + 1
    /\ UNCHANGED <<store, calls, last, inflight, outbox, notices, env>>

\* the store call `op`, reading the clock as `clock` gives it, took the store to
\* r.store and returned r.ret
Returns(op, id, arg, clock, r) ==
    /\ calls < MaxCalls
    /\ r.reads = Len(clock)
    /\ calls' = calls + 1
    /\ store' = r.store
    /\ now' = ClockAfter(clock)
    /\ last' = Call(op, id, arg, clock, r.ret)
    /\ UNCHANGED <<inflight, outbox, notices, env>>

SaveDraft ==
    /\ calls < MaxCalls
    /\ \E input \in Inputs : \E clock \in ClocksOf(saveDraft(store, input, Unread, 0).reads) :
         \E rand \in DrawsFor(store, clock) :
           /\ Len(store) < MaxRecords
           /\ Returns("saveDraft", UnknownId, input, clock,
                      saveDraft(store, input, clock, rand))

SaveSubmission ==
    /\ calls < MaxCalls
    /\ \E input \in Inputs : \E clock \in ClocksOf(saveSubmission(store, input, Unread, 0).reads) :
         \E rand \in DrawsFor(store, clock) :
           /\ Len(store) < MaxRecords
           /\ Returns("saveSubmission", UnknownId, input, clock,
                      saveSubmission(store, input, clock, rand))

SaveBlocked ==
    /\ calls < MaxCalls
    /\ \E input \in Inputs, reasons \in ReasonLists :
         \E clock \in ClocksOf(saveBlocked(store, input, reasons, Unread, 0).reads) :
           \E rand \in DrawsFor(store, clock) :
               /\ Len(store) < MaxRecords
               /\ Returns("saveBlocked", UnknownId, input, clock,
                          saveBlocked(store, input, reasons, clock, rand))

UpdateTeamQueueItem ==
    /\ calls < MaxCalls
    /\ \E id \in CallIds : \E updates \in ArgsFor(id, QueueUpdates) :
         \E clock \in ClocksOf(updateTeamQueueItem(store, id, updates, Unread).reads) :
           Returns("updateTeamQueueItem", id, updates, clock,
                   updateTeamQueueItem(store, id, updates, clock))

ApplyTeamDecision ==
    /\ calls < MaxCalls
    /\ \E id \in CallIds : \E decision \in ArgsFor(id, Decisions) :
         \E clock \in ClocksOf(applyTeamDecision(store, id, decision, Unread).reads) :
           Returns("applyTeamDecision", id, decision, clock,
                   applyTeamDecision(store, id, decision, clock))

UpdateDecisionEmailDelivery ==
    /\ calls < MaxCalls
    /\ \E id \in CallIds : \E delivery \in ArgsFor(id, Deliveries) :
         \E clock \in ClocksOf(updateDecisionEmailDelivery(store, id, delivery, Unread).reads) :
           Returns("updateDecisionEmailDelivery", id, delivery, clock,
                   updateDecisionEmailDelivery(store, id, delivery, clock))

Next ==
    \/ Tick
    \/ SaveDraft
    \/ SaveSubmission
    \/ SaveBlocked
    \/ UpdateTeamQueueItem
    \/ ApplyTeamDecision
    \/ UpdateDecisionEmailDelivery

Spec == Init /\ [][Next]_vars

-----------------------------------------------------------------------------
(* The store called directly, its two reading functions included *)

\* listChangeOrders reversing the store itself: store.reverse() without the copy
ReadAllInPlace(st, clock) ==
    Result(Reverse(st), listChangeOrders(st, clock), listChangeOrdersReads(st, Len(st)))

\* what a call of listChangeOrders leaves in the store, and what it returns
ReadAll(st, clock) ==
    Result(st, listChangeOrders(st, clock), listChangeOrdersReads(st, Len(st)))

\* what a call of getChangeOrderById leaves in the store, and what it returns
ReadOne(st, id, clock) ==
    Result(st, getChangeOrderById(st, id, clock), getChangeOrderByIdReads(st, id))

ListChangeOrders ==
    /\ calls < MaxCalls
    /\ \E clock \in ClocksOf(ReadAll(store, Unread).reads) :
           Returns("listChangeOrders", UnknownId, <<>>, clock, ReadAll(store, clock))

GetChangeOrderById ==
    /\ calls < MaxCalls
    /\ \E id \in CallIds : \E clock \in ClocksOf(ReadOne(store, id, Unread).reads) :
           Returns("getChangeOrderById", id, <<>>, clock, ReadOne(store, id, clock))

NextReads ==
    \/ Next
    \/ ListChangeOrders
    \/ GetChangeOrderById

SpecReads == Init /\ [][NextReads]_vars

-----------------------------------------------------------------------------

(* The HTTP handlers *)

Reply(st, http, ret, reads) == [store |-> st, http |-> http, ret |-> ret, reads |-> reads]

\* POST /api/change-orders/draft
PostDraft(st, payload, clock, rand) ==
    LET parsed == changeOrderDraftInputSchema(payload)
        saved == saveDraft(st, normalizeDraftInput(parsed.data), clock, rand)
    IN  IF ~ parsed.success THEN Reply(st, 400, None, 0)
        ELSE Reply(saved.store, 200, saved.ret, saved.reads)

LateReason ==
    <<"This change order was submitted after 24 hours and cannot be finalized.">>

\* the blockingReasons with the lateness message pushed first
BlockingReasonsLateFirst(data, clock) ==
    LET violations == evaluateChecklist(data)
        checklistViolations == [i \in 1..Len(violations) |-> violations[i].message]
        isLate == isPast24Hours(data.workPerformedAt, clock)
    IN  (IF isLate THEN <<LateReason>> ELSE <<>>) \o checklistViolations

\* the blockingReasons the submit handler computes for a parsed input
BlockingReasons(data, clock) ==
    LET violations == evaluateChecklist(data)
        checklistViolations == [i \in 1..Len(violations) |-> violations[i].message]
        isLate == isPast24Hours(data.workPerformedAt, clock)
    IN  checklistViolations \o (IF isLate THEN <<LateReason>> ELSE <<>>)

\* POST /api/change-orders/submit: isPast24Hours reads the clock first, the
\* save reads it afterwards
PostSubmit(st, payload, clock, rand) ==
    LET parsed == changeOrderInputSchema(payload)
        blockingReasons == BlockingReasons(parsed.data, clock)
        read == isPast24HoursReads(parsed.data.workPerformedAt)
        blocked == saveBlocked(st, parsed.data, blockingReasons, ReadsFrom(clock, read), rand)
        submitted == saveSubmission(st, parsed.data, ReadsFrom(clock, read), rand)
    IN  IF ~ parsed.success THEN Reply(st, 422, None, 0)
        ELSE IF Len(blockingReasons) > 0
             THEN Reply(blocked.store, 422, blocked.ret, read + blocked.reads)
        ELSE Reply(submitted.store, 200, submitted.ret, read + submitted.reads)

Given(payload, field) == field \in DOMAIN payload

\* an object without some of its keys, and with one more key
Without(payload, fields) == [f \in DOMAIN payload \ fields |-> payload[f]]
With(payload, field, value) ==
    [f \in DOMAIN payload \cup {field} |-> IF f = field THEN value ELSE payload[f]]

\* sendTeamSubmissionNotification up to its await: the mail it hands to
\* sendEmail, none when NEW_CO_NOTIFY_TO is not configured.  The static markup
\* of the html template is abbreviated to one token per block, and the text
\* workPerformedAt was given as is one token.
TeamNotificationMail(environment, input, submissionStatus, blockingReasons) ==
    LET teamNotificationTo == Trim(OrElse(environment.NEW_CO_NOTIFY_TO, EmptyStr))
        totalCost == JsPlus(JsPlus(input.materialCost, input.laborCost),
                            input.additionalCharges)
        statusLabel == IF submissionStatus = "SUBMITTED" THEN "Submitted" ELSE "Blocked"
        lowered == IF submissionStatus = "SUBMITTED" THEN "submitted" ELSE "blocked"
        listed == submissionStatus = "BLOCKED" /\ Len(blockingReasons) > 0
        blockingLines ==
            IF listed
            THEN <<"\n\nBlocking reasons:\n">>
                 \o JoinMap(blockingReasons, <<"- ">>, <<>>, <<"\n">>)
            ELSE <<>>
        blockingHtml ==
            IF listed
            THEN <<"<div>", "<p><strong>Blocking reasons:</strong></p>", "<ul>">>
                 \o JoinMap(blockingReasons, <<"<li>">>, <<"</li>">>, <<>>)
                 \o <<"</ul>", "</div>">>
            ELSE <<>>
        statusColor == IF submissionStatus = "SUBMITTED" THEN "#166534" ELSE "#9f1239"
        photos == <<ToString(Len(input.photos))>>
    IN  IF teamNotificationTo = EmptyStr THEN None
        ELSE Some(
          [ to |-> teamNotificationTo,
            subject |-> <<"New change order ", lowered, " - ">> \o input.projectId,
            text |-> <<"A contractor submitted a new change order.">>
                     \o <<"\n\nStatus: ", statusLabel>>
                     \o <<"\nProject: ">> \o input.projectId
                     \o <<"\nContractor: ">> \o input.contractorName
                     \o <<"\nContractor email: ">> \o input.contractorEmail
                     \o <<"\nWork performed: ">> \o <<input.workPerformedAt>>
                     \o <<"\nScope: ">> \o input.scope
                     \o <<"\nTotal requested: $">> \o toFixed2(totalCost)
                     \o <<"\nPhotos attached: ">> \o photos
                     \o blockingLines
                     \o <<"\n\nOpen the team queue to review this submission.">>,
            html |-> Some(
                     <<"<div><div>", "<header/>", "<div>",
                       "<p>A new change order was submitted.</p>", "<div>">>
                     \o <<"<p ", statusColor, "><strong>Status:</strong> ", statusLabel, "</p>">>
                     \o <<"<p><strong>Project:</strong> ">> \o input.projectId
                     \o <<"</p><p><strong>Contractor:</strong> ">> \o input.contractorName
                     \o <<"</p><p><strong>Contractor email:</strong> ">>
                     \o input.contractorEmail
                     \o <<"</p><p><strong>Work performed:</strong> ">>
                     \o <<input.workPerformedAt>>
                     \o <<"</p><p><strong>Total requested:</strong> $">>
                     \o toFixed2(totalCost)
                     \o <<"</p><p><strong>Photos attached:</strong> ">> \o photos
                     \o <<"</p>", "</div>">>
                     \o blockingHtml
                     \o <<"<p>Open the team queue to review and decide.</p>",
                          "</div>", "</div></div>">>) ])

\* POST /api/change-orders: the submit handler, and after the save the
\* notification of the team.  What the handler has done when it responds, or
\* when it suspends in `await sendTeamSubmissionNotification(...)` after a
\* save: `send` holds the mail when one was handed to sendEmail.
PostChangeOrder(st, environment, payload, clock, rand) ==
    LET parsed == changeOrderInputSchema(payload)
        blockingReasons == BlockingReasons(parsed.data, clock)
        read == isPast24HoursReads(parsed.data.workPerformedAt)
        blocked == saveBlocked(st, parsed.data, blockingReasons, ReadsFrom(clock, read), rand)
        submitted == saveSubmission(st, parsed.data, ReadsFrom(clock, read), rand)
        blockedMail == TeamNotificationMail(environment, parsed.data, "BLOCKED",
                                            blockingReasons)
        submittedMail == TeamNotificationMail(environment, parsed.data, "SUBMITTED", <<>>)
        done(st2, http, ret, send, reads) ==
            [ store |-> st2, http |-> http, ret |-> ret, send |-> send,
              awaits |-> IF ret # None THEN "notifying" ELSE "", reads |-> reads ]
    IN  IF ~ parsed.success THEN done(st, 422, None, None, 0)
        ELSE IF Len(blockingReasons) > 0
             THEN done(blocked.store, 422, blocked.ret, blockedMail, read + blocked.reads)
        ELSE done(submitted.store, 200, submitted.ret, submittedMail,
                  read + submitted.reads)

\* the mail the POST handler of the unnamed part of the source hands to
\* sendEmail: it carries no status and no blocking reasons
Part001Mail(teamNotificationTo, input) ==
    LET totalCost == JsPlus(JsPlus(input.materialCost, input.laborCost),
                            input.additionalCharges)
        photos == <<ToString(Len(input.photos))>>
    IN  [ to |-> teamNotificationTo,
          subject |-> <<"New change order submitted - ">> \o input.projectId,
          text |-> <<"A contractor submitted a new change order.">>
                   \o <<"\n\nProject: ">> \o input.projectId
                   \o <<"\nContractor: ">> \o input.contractorName
                   \o <<"\nContractor email: ">> \o input.contractorEmail
                   \o <<"\nWork performed: ">> \o <<input.workPerformedAt>>
                   \o <<"\nScope: ">> \o input.scope
                   \o <<"\nTotal requested: $">> \o toFixed2(totalCost)
                   \o <<"\nPhotos attached: ">> \o photos
                   \o <<"\n\nOpen the team queue to review this submission.">>,
          html |-> Some(
                   <<"<div><div>", "<header/>", "<div>",
                     "<p>A new change order was submitted.</p>", "<div>">>
                   \o <<"<p><strong>Project:</strong> ">> \o input.projectId
                   \o <<"</p><p><strong>Contractor:</strong> ">> \o input.contractorName
                   \o <<"</p><p><strong>Contractor email:</strong> ">>
                   \o input.contractorEmail
                   \o <<"</p><p><strong>Work performed:</strong> ">>
                   \o <<input.workPerformedAt>>
                   \o <<"</p><p><strong>Total requested:</strong> $">>
                   \o toFixed2(totalCost)
                   \o <<"</p><p><strong>Photos attached:</strong> ">> \o photos
                   \o <<"</p>", "</div>">>
                   \o <<"<p>Open the team queue to review and decide.</p>",
                        "</div>", "</div></div>">>) ]

\* The POST handler of the unnamed part of the source, an earlier form of the
\* one above: a blocked submission is answered without a notification, and a
\* submitted one is notified only when NEW_CO_NOTIFY_TO is configured.  The
\* handler awaits only when it hands a mail to sendEmail; otherwise it responds
\* in the step of its save, a submitted record with a SKIPPED notification
\* that has no error text.
PostPart001(st, environment, payload, clock, rand) ==
    LET parsed == changeOrderInputSchema(payload)
        blockingReasons == BlockingReasons(parsed.data, clock)
        read == isPast24HoursReads(parsed.data.workPerformedAt)
        blocked == saveBlocked(st, parsed.data, blockingReasons, ReadsFrom(clock, read), rand)
        submitted == saveSubmission(st, parsed.data, ReadsFrom(clock, read), rand)
        teamNotificationTo == Trim(OrElse(environment.NEW_CO_NOTIFY_TO, EmptyStr))
        done(st2, http, ret, send, reads) ==
            [ store |-> st2, http |-> http, ret |-> ret, send |-> send,
              awaits |-> IF send # None THEN "notifying submitted" ELSE "",
              reads |-> reads ]
    IN  IF ~ parsed.success THEN done(st, 422, None, None, 0)
        ELSE IF Len(blockingReasons) > 0
             THEN done(blocked.store, 422, blocked.ret, None, read + blocked.reads)
        ELSE done(submitted.store, 200, submitted.ret,
                  IF teamNotificationTo = EmptyStr THEN None
                  ELSE Some(Part001Mail(teamNotificationTo, parsed.data)),
                  read + submitted.reads)

\* bodySchema.safeParse(payload) of POST /api/email-test: the address is not
\* trimmed
bodySchema(payload) ==
    LET ok == Given(payload, "to") /\ ZodEmail(payload.to)
    IN  [ success |-> ok, data |-> IF ok THEN Some([to |-> payload.to]) ELSE None ]

\* POST /api/email-test up to its await: the answer to a bad body, or the mail
\* it hands to sendDecisionEmail
PostEmailTest(payload) ==
    LET parsed == bodySchema(payload)
    IN  IF ~ parsed.success THEN [http |-> 400, send |-> None]
        ELSE [ http |-> 0,
               send |-> Some(
                 [ to |-> parsed.data[1].to,
                   subject |-> <<"Remi Change Order email test">>,
                   text |-> <<"This is a test decision notification from Change Order Submission.",
                              "\n\n",
                              "If you received this, email delivery is configured correctly.">>,
                   html |-> None ]) ]

\* updateSchema.safeParse(payload) of the PATCH handler
updateSchema(payload) ==
    [ success |-> "teamStatus" \in DOMAIN payload
                    => payload.teamStatus \in TeamQueueStatuses,
      data |-> QueueUpdate(
                  IF "teamStatus" \in DOMAIN payload THEN Some(payload.teamStatus) ELSE None,
                  IF "reviewerNotes" \in DOMAIN payload THEN Some(payload.reviewerNotes)
                  ELSE None) ]

\* PATCH /api/change-orders/[id]
\* the PATCH handler answering an unknown identifier as it answers a bad body
PatchChangeOrderNotFoundAsInvalid(st, id, payload, clock) ==
    LET parsed == updateSchema(payload)
        updated == updateTeamQueueItem(st, id, parsed.data, clock)
    IN  IF ~ parsed.success \/ updated.ret = None THEN Reply(st, 400, None, 0)
        ELSE Reply(updated.store, 200, updated.ret, updated.reads)

PatchChangeOrder(st, id, payload, clock) ==
    LET parsed == updateSchema(payload)
        updated == updateTeamQueueItem(st, id, parsed.data, clock)
    IN  IF ~ parsed.success THEN Reply(st, 400, None, 0)
        ELSE IF updated.ret = None THEN Reply(st, 404, None, 0)
        ELSE Reply(updated.store, 200, updated.ret, updated.reads)

denialReasonCodes ==
    { "MISSING_REQUIRED_INFO", "INSUFFICIENT_PHOTO_EVIDENCE", "OUTSIDE_24_HOUR_WINDOW",
      "DUPLICATE_REQUEST", "PRICING_NOT_JUSTIFIED", "IN_SCOPE_OF_TURNKEY", "OTHER" }

\* decisionSchema.safeParse(payload): the discriminated union on `action`
decisionSchema(payload) ==
    LET common == /\ Given(payload, "decidedBy") /\ Len(payload.decidedBy) >= 1
                  /\ Given(payload, "decisionExplanation")
                  /\ Len(payload.decisionExplanation) >= 1
        message == IF Given(payload, "contractorFacingMessage")
                   THEN payload.contractorFacingMessage ELSE EmptyStr
        ok == /\ Given(payload, "action")
              /\ CASE payload.action = "NEEDS_INFO" ->
                        /\ common
                        /\ Given(payload, "needsInfoChecklist")
                        /\ Len(payload.needsInfoChecklist) >= 1
                        /\ \A i \in 1..Len(payload.needsInfoChecklist) :
                              Len(payload.needsInfoChecklist[i]) >= 1
                   [] payload.action = "APPROVE" ->
                        /\ common
                        /\ Given(payload, "approvedAmount")
                        /\ payload.approvedAmount > 0
                   [] payload.action = "DENY" ->
                        /\ common
                        /\ Given(payload, "denialReasonCode")
                        /\ payload.denialReasonCode \in denialReasonCodes
                   [] OTHER -> FALSE
        \* the keys of the variant `action` selects, and no others
        shared == [ action |-> payload.action,
                    decidedBy |-> payload.decidedBy,
                    decisionExplanation |-> payload.decisionExplanation,
                    contractorFacingMessage |-> message ]
    IN  [ success |-> ok,
          data |-> IF ~ ok THEN None
                   ELSE IF payload.action = "NEEDS_INFO"
                   THEN With(shared, "needsInfoChecklist", payload.needsInfoChecklist)
                   ELSE IF payload.action = "APPROVE"
                   THEN With(With(With(shared, "approvedAmount", payload.approvedAmount),
                                  "acknowledgeLateSubmission",
                                  Given(payload, "acknowledgeLateSubmission")
                                  /\ payload.acknowledgeLateSubmission),
                             "isLate", Given(payload, "isLate") /\ payload.isLate)
                   ELSE With(shared, "denialReasonCode", payload.denialReasonCode) ]

\* POST /api/change-orders/[id]/decision, up to `await request.json()`:
\* the status of the early response, 0 when the handler goes on
\* the lookup without its `existing.status !== "SUBMITTED"` response
DecisionLookupAnyStatus(st, id, clock) ==
    IF getChangeOrderById(st, id, clock) = None THEN 404 ELSE 0

\* the lookup turning away drafts only
DecisionLookupDraftsOnly(st, id, clock) ==
    LET existing == getChangeOrderById(st, id, clock)
    IN  IF existing = None THEN 404
        ELSE IF existing[1].status = "DRAFT" THEN 422
        ELSE 0

DecisionLookup(st, id, clock) ==
    LET existing == getChangeOrderById(st, id, clock)
    IN  IF existing = None THEN 404
        ELSE IF existing[1].status # "SUBMITTED" THEN 422
        ELSE 0

\* the DecisionInput the handler passes to applyTeamDecision
DecisionArgument(data) ==
    [ action |-> data.action,
      decidedBy |-> data.decidedBy,
      decisionExplanation |-> data.decisionExplanation,
      contractorFacingMessage |-> Some(data.contractorFacingMessage),
      approvedAmount |->
          IF data.action = "APPROVE" THEN Some(data.approvedAmount) ELSE None,
      denialReasonCode |->
          IF data.action = "DENY" THEN Some(data.denialReasonCode) ELSE None,
      needsInfoChecklist |->
          IF data.action = "NEEDS_INFO" THEN data.needsInfoChecklist ELSE <<>> ]

\* the mail handed to sendDecisionEmail for the record applyTeamDecision returned
DecisionMail(updated) ==
    [ to |-> updated.input.contractorEmail,
      subject |-> OrElse(updated.decisionEmailSubject, <<"Change order decision">>),
      text |-> OrElse(updated.decisionEmailBody,
                      <<"A decision has been made on your change order.">>),
      html |-> updated.decisionEmailHtml ]

\* What the decision handler has done when it responds or suspends: `send` holds
\* the mail when it goes on to the transport, and then `updated` is the record
\* it goes on with; `reads` counts its clock reads.
Early(st, http, ret, reads) ==
    [ store |-> st, http |-> http, ret |-> ret, send |-> None, updated |-> None,
      reads |-> reads ]

\* the handler going on to the transport whatever the record's address is
DecisionNotifyAlwaysSending(id, applied, failed) ==
    [ store |-> applied.store, http |-> 0, ret |-> None,
      send |-> Some(DecisionMail(applied.ret[1])), updated |-> applied.ret,
      reads |-> applied.reads ]

\* POST .../decision, from `if (!hasValidContractorEmail(updated))` to
\* `await sendDecisionEmail`, `applied` being what applyTeamDecision made
DecisionNotify(id, applied, failed) ==
    IF ~ hasValidContractorEmail(applied.ret[1])
    THEN Early(failed.store, 200, IF failed.ret # None THEN failed.ret ELSE applied.ret,
               applied.reads + failed.reads)
    ELSE [ store |-> applied.store, http |-> 0, ret |-> None,
           send |-> Some(DecisionMail(applied.ret[1])), updated |-> applied.ret,
           reads |-> applied.reads ]

\* POST .../decision, from applyTeamDecision on: updateDecisionEmailDelivery
\* reads the clock after applyTeamDecision has
DecisionApplied(st, id, applied, clock) ==
    IF applied.ret = None THEN Early(st, 404, None, applied.reads)
    ELSE DecisionNotify(
            id, applied,
            updateDecisionEmailDelivery(
                applied.store, id,
                Delivery("FAILED", Some(InvalidEmailError), None, None, None),
                ReadsFrom(clock, applied.reads)))

\* POST .../decision, from decisionSchema.safeParse(payload) on
DecisionParsed(st, id, parsed, clock) ==
    IF ~ parsed.success THEN Early(st, 400, None, 0)
    ELSE IF /\ parsed.data.action = "APPROVE"
            /\ parsed.data.isLate
            /\ ~ parsed.data.acknowledgeLateSubmission
         THEN Early(st, 422, None, 0)
    ELSE DecisionApplied(
            st, id, applyTeamDecision(st, id, DecisionArgument(parsed.data), clock), clock)

\* POST .../decision from `await request.json()` to `await sendDecisionEmail`
DecisionDecide(st, id, payload, clock) ==
    DecisionParsed(st, id, decisionSchema(payload), clock)

\* the handler answering after the transport returned without recording anything
DecisionDeliverUnrecorded(st, id, updated, emailResult, clock) ==
    Reply(st, 200, Some(updated), 0)

\* POST .../decision after `await sendDecisionEmail`
DecisionDeliver(st, id, updated, emailResult, clock) ==
    LET withDelivery ==
            updateDecisionEmailDelivery(
                st, id,
                Delivery(IF emailResult.sent THEN "SENT" ELSE "FAILED",
                         emailResult.error, emailResult.previewUrl, None,
                         emailResult.mode),
                clock)
    IN  Reply(withDelivery.store, 200,
              IF withDelivery.ret # None THEN withDelivery.ret ELSE Some(updated),
              withDelivery.reads)

-----------------------------------------------------------------------------
(* The request bodies and transport results the handlers are run with *)

\* work performed exactly 24 hours before the clock starts
DayOldInput == [CompleteInput EXCEPT !.workPerformedAt = IsoString(0 - DayMs)]

\* the complete change order as a request body: the e-mail address padded with
\* a no-break space and a vertical tab, the fields that have defaults left out except for the photos
CompletePayload ==
    Without([CompleteInput EXCEPT !.contractorEmail = <<NoBreakSpace>> \o ValidEmail \o <<VerticalTab>>],
            {"isMultiItem", "lineItems", "additionalChargesReason"})

\* bodies of POST /submit
SubmitPayloads ==
    { CompletePayload,
      DayOldInput,
      Without([CompleteInput EXCEPT !.scope = <<NoBreakSpace>>,
                                    !.additionalCharges = 5,
                                    !.workPerformedAt = GarbageTimestamp],
              {"photos"}),
      [DayOldInput EXCEPT !.quantity = 0],
      [CompleteInput EXCEPT !.contractorEmail =
            <<"a", "n", "@", "x", "-", ".", "i", "o">>],
      Without(CompleteInput, {"scope", "photos"}) }

\* bodies of POST /draft
DraftPayloads ==
    { [scope |-> <<"d", "e", "c", "k">>],
      [contractorEmail |-> <<"a", ".", ".", "b", "@", "x", ".", "i", "o">>] }

\* bodies of PATCH /[id]
PatchPayloads ==
    { [teamStatus |-> "IN_REVIEW"],
      [teamStatus |-> "APPROVED", reviewerNotes |-> <<"on hold">>],
      [teamStatus |-> "DONE"] }

DecisionBody(action, by) ==
    [action |-> action, decidedBy |-> by, decisionExplanation |-> <<"reviewed on site">>]

\* bodies of POST /[id]/decision
DecisionPayloads ==
    { With(With(DecisionBody("NEEDS_INFO", <<"bo">>), "needsInfoChecklist",
                << <<"permit">>, <<"photo of ", "\"", "deck", "\"">> >>),
           "contractorFacingMessage", <<"send ", "<", "all", ">">>),
      With(DecisionBody("NEEDS_INFO", <<"ana">>), "needsInfoChecklist", <<>>),
      With(With(DecisionBody("APPROVE", <<"bo">>), "approvedAmount", 250),
           "contractorFacingMessage", <<"ok">>),
      With(With(DecisionBody("APPROVE", <<"ana">>), "approvedAmount", 100),
           "isLate", TRUE),
      With(DecisionBody("DENY", <<"ana">>), "denialReasonCode", "DUPLICATE_REQUEST") }

\* what sendDecisionEmail resolves to
EmailResult(sent, mode, previewUrl, error) ==
    [sent |-> sent, mode |-> mode, previewUrl |-> previewUrl, error |-> error]

EmailResults ==
    { EmailResult(TRUE, Some("preview"), Some(<<"https://preview/1">>), None),
      EmailResult(FALSE, Some("smtp"), None, Some(<<"connection refused">>)) }

-----------------------------------------------------------------------------
(* The application driven through its HTTP handlers *)

Idle == [pc |-> "idle"]

\* a handler that runs to its response without suspending, reading the clock
\* as `clock` gives it
Responds(op, id, arg, clock, r) ==
    /\ calls < MaxCalls
    /\ r.reads = Len(clock)
    /\ calls' = calls + 1
    /\ Len(r.store) <= MaxRecords
    /\ store' = r.store
    /\ now' = ClockAfter(clock)
    /\ last' = Response(op, id, arg, clock, r.http, r.ret)
    /\ UNCHANGED <<inflight, outbox, notices, env>>

HttpPostDraft ==
    /\ calls < MaxCalls
    /\ \E payload \in DraftPayloads :
         \E clock \in ClocksOf(PostDraft(store, payload, Unread, 0).reads) :
           \E rand \in DrawsFor(store, clock) :
           Responds("POST draft", UnknownId, payload, clock,
                    PostDraft(store, payload, clock, rand))

\* the reads the submit handler makes before it saves: that of isPast24Hours,
\* made when the body passed the schema
PostSubmitChecks(payload) ==
    LET parsed == changeOrderInputSchema(payload)
    IN  IF parsed.success THEN isPast24HoursReads(parsed.data.workPerformedAt) ELSE 0

\* what isPast24Hours read settles which save the submit handler makes, and with
\* it how often the handler reads
HttpPostSubmit ==
    /\ calls < MaxCalls
    /\ \E payload \in SubmitPayloads : \E checked \in ClocksOf(PostSubmitChecks(payload)) :
         \E clock \in ClocksAfter(checked, PostSubmit(store, payload, checked, 0).reads) :
           \E rand \in DrawsFor(store, clock) :
               Responds("POST submit", UnknownId, payload, clock,
                        PostSubmit(store, payload, clock, rand))

\* bodies of POST /api/change-orders: one that is submitted, one that is
\* blocked, one that lacks a required field
ChangeOrderPayloads ==
    { CompletePayload,
      Without([CompleteInput EXCEPT !.scope = <<NoBreakSpace>>,
                                    !.additionalCharges = 5,
                                    !.workPerformedAt = GarbageTimestamp],
              {"photos"}),
      Without(CompleteInput, {"scope", "photos"}) }

\* the first idle slot
FreeSlot ==
    CHOOSE k \in DOMAIN inflight :
        inflight[k] = Idle /\ \A j \in 1..(k - 1) : inflight[j] # Idle

\* A handler of POST /api/change-orders took the store to r.store and
\* responded, or suspended in the await r.awaits names.  The handler of
\* route.ts suspends after every save, in
\* `await sendTeamSubmissionNotification(...)`, which gives control away also
\* when nothing was handed to sendEmail; the one of the unnamed part suspends
\* only in `await sendEmail`, and reports a submission it did not notify of as
\* SKIPPED.
Submits(payload, clock, r) ==
    /\ r.reads = Len(clock)
    /\ Len(r.store) <= MaxRecords
    /\ calls' = calls + 1
    /\ store' = r.store
    /\ now' = ClockAfter(clock)
    /\ IF r.awaits = ""
       THEN /\ last' = IF r.http = 200
                       THEN With(Response("POST change-orders", UnknownId, payload,
                                          clock, r.http, r.ret),
                                 "submissionNotification",
                                 [ status |-> "SKIPPED", to |-> None, mode |-> None,
                                   previewUrl |-> None, error |-> None ])
                       ELSE Response("POST change-orders", UnknownId, payload, clock,
                                     r.http, r.ret)
            /\ UNCHANGED <<inflight, notices>>
       ELSE /\ \E k \in DOMAIN inflight : inflight[k] = Idle
            /\ inflight' = [inflight EXCEPT ![FreeSlot] =
                              [ pc |-> r.awaits, payload |-> payload,
                                http |-> r.http, changeOrder |-> r.ret,
                                send |-> r.send ]]
            /\ notices' = IF r.send = None THEN notices
                          ELSE Append(notices, [id |-> r.ret[1].id, mail |-> r.send[1]])
            /\ last' = Response("change order saved", UnknownId, payload, clock, 0, r.ret)
    /\ UNCHANGED <<outbox, env>>

\* what isPast24Hours read settles which save the handler makes, and with it
\* how often the handler reads
HttpPostChangeOrder ==
    /\ calls < MaxCalls
    /\ \E payload \in ChangeOrderPayloads :
         \E checked \in ClocksOf(PostSubmitChecks(payload)) :
           \E clock \in ClocksAfter(checked,
                                    PostChangeOrder(store, env, payload, checked, 0).reads) :
             \E rand \in DrawsFor(store, clock) :
               Submits(payload, clock, PostChangeOrder(store, env, payload, clock, rand))

\* the SubmissionNotification of a mail that was handed to sendEmail, which
\* resolved to `result`
Notified(mail, result) ==
    [ status |-> IF result.sent THEN "SENT" ELSE "FAILED", to |-> Some(mail.to),
      mode |-> result.mode, previewUrl |-> result.previewUrl, error |-> result.error ]

\* sendTeamSubmissionNotification resolves, after sendEmail did when a mail was
\* handed over: the response reports the saved record and the outcome
HttpPostChangeOrderNotified ==
    \E slot \in DOMAIN inflight :
        /\ inflight[slot].pc = "notifying"
        /\ \E submissionNotification \in
                IF inflight[slot].send = None
                THEN {[ status |-> "SKIPPED", to |-> None, mode |-> None,
                        previewUrl |-> None,
                        error |-> Some(<<"NEW_CO_NOTIFY_TO is not configured.">>) ]}
                ELSE {Notified(inflight[slot].send[1], result) : result \in EmailResults} :
             last' = With(Response("POST change-orders", UnknownId,
                                   inflight[slot].payload, <<>>, inflight[slot].http,
                                   inflight[slot].changeOrder),
                          "submissionNotification", submissionNotification)
        /\ inflight' = [inflight EXCEPT ![slot] = Idle]
        /\ UNCHANGED <<store, now, calls, outbox, notices, env>>

\* the POST handler of the unnamed part
HttpPostPart001 ==
    /\ calls < MaxCalls
    /\ \E payload \in ChangeOrderPayloads :
         \E checked \in ClocksOf(PostSubmitChecks(payload)) :
           \E clock \in ClocksAfter(checked,
                                    PostPart001(store, env, payload, checked, 0).reads) :
             \E rand \in DrawsFor(store, clock) :
               Submits(payload, clock, PostPart001(store, env, payload, clock, rand))

\* sendEmail resolves for the handler of the unnamed part
HttpPostPart001Notified ==
    \E slot \in DOMAIN inflight :
        /\ inflight[slot].pc = "notifying submitted"
        /\ \E result \in EmailResults :
             last' = With(Response("POST change-orders", UnknownId,
                                   inflight[slot].payload, <<>>, inflight[slot].http,
                                   inflight[slot].changeOrder),
                          "submissionNotification",
                          Notified(inflight[slot].send[1], result))
        /\ inflight' = [inflight EXCEPT ![slot] = Idle]
        /\ UNCHANGED <<store, now, calls, outbox, notices, env>>

\* POST /api/email-test answers a bad body, or hands the test mail, which is
\* sent for no record, to sendDecisionEmail and suspends.  The bodies: an
\* address, the address after a space, and a body without one.
HttpPostEmailTest ==
    /\ calls < MaxCalls
    /\ \E payload \in { [to |-> ValidEmail], [to |-> <<" ">> \o ValidEmail],
                         [subject |-> <<"hello">>] } :
         LET r == PostEmailTest(payload)
         IN  IF r.send = None
             THEN /\ last' = Response("POST email-test", UnknownId, payload, <<>>,
                                      r.http, None)
                  /\ UNCHANGED <<inflight, outbox>>
             ELSE /\ \E k \in DOMAIN inflight : inflight[k] = Idle
                  /\ inflight' = [inflight EXCEPT ![FreeSlot] =
                                    [pc |-> "testing", payload |-> payload]]
                  /\ outbox' = Append(outbox, [id |-> None, mail |-> r.send[1]])
                  /\ last' = Response("test mail handed over", UnknownId, payload,
                                      <<>>, 0, None)
    /\ calls' = calls + 1
    /\ UNCHANGED <<store, now, notices, env>>

\* sendDecisionEmail resolves for the test mail: the response reports the outcome
HttpPostEmailTestSent ==
    \E slot \in DOMAIN inflight :
        /\ inflight[slot].pc = "testing"
        /\ \E result \in EmailResults :
             last' = With(Response("POST email-test", UnknownId, inflight[slot].payload,
                                   <<>>, 200, None),
                          "body",
                          [ status |-> IF result.sent THEN "ok" ELSE "error",
                            mode |-> result.mode, previewUrl |-> result.previewUrl,
                            error |-> result.error ])
        /\ inflight' = [inflight EXCEPT ![slot] = Idle]
        /\ UNCHANGED <<store, now, calls, outbox, notices, env>>

\* the handler parses the body before it looks the identifier up, so every
\* body is tried on every identifier
HttpPatch ==
    /\ calls < MaxCalls
    /\ \E id \in CallIds : \E payload \in PatchPayloads :
         \E clock \in ClocksOf(PatchChangeOrder(store, id, payload, Unread).reads) :
           Responds("PATCH", id, payload, clock, PatchChangeOrder(store, id, payload, clock))

\* a decision request arrives: the lookup, then either an early response or
\* the handler suspends in `await request.json()`
HttpDecisionBegin ==
    /\ calls < MaxCalls
    /\ \E id \in CallIds : \E clock \in ClocksOf(getChangeOrderByIdReads(store, id)) :
           LET http == DecisionLookup(store, id, clock)
               slot == CHOOSE k \in DOMAIN inflight :
                           inflight[k] = Idle /\ \A j \in 1..(k - 1) : inflight[j] # Idle
           IN  /\ calls' = calls + 1
               /\ IF http # 0
                  THEN /\ last' = Response("POST decision", id, <<>>, clock, http, None)
                       /\ UNCHANGED inflight
                  ELSE /\ \E k \in DOMAIN inflight : inflight[k] = Idle
                       /\ inflight' = [inflight EXCEPT ![slot] = [pc |-> "parsing", id |-> id]]
                       /\ last' = Response("decision received", id, <<>>, clock, 0, None)
               /\ now' = ClockAfter(clock)
               /\ UNCHANGED <<store, outbox, notices, env>>

\* the handler in `slot` took the store to r.store and responded or suspended
Decides(slot, id, payload, clock, r) ==
    /\ r.reads = Len(clock)
    /\ store' = r.store
    /\ IF r.send = None
       THEN /\ inflight' = [inflight EXCEPT ![slot] = Idle]
            /\ last' = Response("POST decision", id, payload, clock, r.http, r.ret)
            /\ UNCHANGED outbox
       ELSE /\ inflight' = [inflight EXCEPT ![slot] =
                              [ pc |-> "sending", id |-> id,
                                payload |-> payload,
                                updated |-> r.updated[1] ]]
            /\ outbox' = Append(outbox, [id |-> id, mail |-> r.send[1]])
            /\ last' = Response("decision applied", id, payload, clock, 0, r.updated)
    /\ now' = ClockAfter(clock)
    /\ UNCHANGED <<calls, notices, env>>

\* the body is read: validation, the decision, and either the response or the
\* hand-over of the mail to the transport
HttpDecisionDecide ==
    \E slot \in DOMAIN inflight :
        /\ inflight[slot].pc = "parsing"
        /\ \E payload \in DecisionPayloads :
            \E clock \in ClocksOf(DecisionDecide(store, inflight[slot].id, payload,
                                                  Unread).reads) :
              Decides(slot, inflight[slot].id, payload, clock,
                      DecisionDecide(store, inflight[slot].id, payload, clock))

\* the transport resolved for the handler in `slot`: r is what it answers
Delivers(slot, id, payload, clock, r) ==
    /\ r.reads = Len(clock)
    /\ store' = r.store
    /\ last' = Response("POST decision", id, payload, clock, r.http, r.ret)
    /\ inflight' = [inflight EXCEPT ![slot] = Idle]
    /\ now' = ClockAfter(clock)
    /\ UNCHANGED <<calls, outbox, notices, env>>

\* the transport resolves: the delivery outcome is recorded and the response sent
HttpDecisionDeliver ==
    \E slot \in DOMAIN inflight :
        /\ inflight[slot].pc = "sending"
        /\ \E emailResult \in EmailResults :
            \E clock \in ClocksOf(DecisionDeliver(store, inflight[slot].id,
                                                   inflight[slot].updated, emailResult,
                                                   Unread).reads) :
              Delivers(slot, inflight[slot].id, inflight[slot].payload, clock,
                       DecisionDeliver(store, inflight[slot].id, inflight[slot].updated,
                                       emailResult, clock))

NextHttp ==
    \/ Tick
    \/ HttpPostDraft
    \/ HttpPostSubmit
    \/ HttpPostChangeOrder
    \/ HttpPostChangeOrderNotified
    \/ HttpPostPart001
    \/ HttpPostPart001Notified
    \/ HttpPostEmailTest
    \/ HttpPostEmailTestSent
    \/ HttpPatch
    \/ HttpDecisionBegin
    \/ HttpDecisionDecide
    \/ HttpDecisionDeliver

\* the server starts in one of the environments, with an empty store
InitHttp ==
    /\ store = <<>>
    /\ now = 0
    /\ calls = 0
    /\ last = NoCall
    /\ inflight = [slot \in 1..MaxInflight |-> [pc |-> "idle"]]
    /\ outbox = <<>>
    /\ notices = <<>>
    /\ env \in Environments

SpecHttp == InitHttp /\ [][NextHttp]_vars

\* the call of the transport returns to the handler in `slot`, which was
\* suspended in `await sendDecisionEmail`
TransportReturns(slot) ==
    /\ inflight[slot].pc = "sending"
    /\ HttpDecisionDeliver
    /\ inflight'[slot].pc = "idle"


-----------------------------------------------------------------------------
(* The decision endpoint over a store that was loaded with a record *)

\* contractorEmail of the record the store holds when the module is loaded:
\* a valid address, one with two dots in a row, and a valid one padded with a
\* no-break space and a vertical tab
ContractorEmails ==
    { ValidEmail,
      <<"a", ".", ".", "b", "@", "x", ".", "i", "o">>,
      <<NoBreakSpace>> \o ValidEmail \o <<VerticalTab>> }

\* the decision requests that may be in flight at once when they race
MaxRacing == 2

\* globalThis.__changeOrderPocStore holds one submitted record, which
\* saveSubmission stored for whatever ChangeOrderInput it was called with: the
\* one call that was made
InitDecision ==
    /\ \E email \in ContractorEmails :
          store = saveSubmission(<<>>, [CompleteInput EXCEPT !.contractorEmail = email],
                                 <<0, 0, 0, 0>>, CHOOSE rand \in RandomDraws : TRUE).store
    /\ now = 0
    /\ calls = 1
    /\ last = NoCall
    /\ inflight = [slot \in 1..MaxRacing |-> [pc |-> "idle"]]
    /\ outbox = <<>>
    /\ notices = <<>>
    /\ env = [NEW_CO_NOTIFY_TO |-> None]

NextDecision ==
    \/ Tick
    \/ HttpDecisionBegin
    \/ HttpDecisionDecide
    \/ HttpDecisionDeliver

SpecDecision == InitDecision /\ [][NextDecision]_vars

\* The same with every call of the transport returning: a handler suspended
\* in `await sendDecisionEmail` is resumed sooner or later.
SpecDecisionLive ==
    SpecDecision /\ \A slot \in 1..MaxRacing : WF_vars(TransportReturns(slot))

-----------------------------------------------------------------------------

(* The checklist validator called on its own *)

\* the longest lineItems list of the sampled inputs
MaxLineItems == 2

\* line items: a complete one, one with an empty and one with a blank
\* description, one with quantity 0, one with a negative unit price
LineItemSamples ==
    { [description |-> <<"p", "o", "s", "t">>, quantity |-> 1, unitPrice |-> 10],
      [description |-> EmptyStr, quantity |-> 1, unitPrice |-> 10],
      [description |-> <<NoBreakSpace>>, quantity |-> 1, unitPrice |-> 10],
      [description |-> <<"p", "o", "s", "t">>, quantity |-> 0, unitPrice |-> 10],
      [description |-> <<"p", "o", "s", "t">>, quantity |-> 1, unitPrice |-> -1] }

LineItemLists == UNION {[1..n -> LineItemSamples] : n \in 0..MaxLineItems}

\* the ChangeOrderInput values evaluateChecklist is called with: every field a
\* rule reads varies on both sides of the rule's condition
ChecklistInputs ==
    { [CompleteInput EXCEPT !.scope = scope,
                            !.quantity = quantity,
                            !.materialCost = materialCost,
                            !.laborCost = laborCost,
                            !.additionalCharges = additionalCharges,
                            !.additionalChargesReason = additionalChargesReason,
                            !.whyNeeded = whyNeeded,
                            !.whyNotInTurnKey = whyNotInTurnKey,
                            !.photos = photos,
                            !.isMultiItem = isMultiItem,
                            !.lineItems = lineItems] :
        scope \in {EmptyStr, <<" ", NoBreakSpace>>, <<"d", "e", "c", "k">>},
        quantity \in {-1, 0, 1, 2},
        materialCost \in {-1, 0, 40, Subnormal(1)},
        laborCost \in {-1, 0},
        additionalCharges \in {0, 5},
        additionalChargesReason \in {EmptyStr, <<"f", "e", "e">>},
        whyNeeded \in {<<"\r", "\f", VerticalTab, ByteOrderMark, OghamSpaceMark>>, <<"r", "o", "t">>},
        whyNotInTurnKey \in {EmptyStr, <<"h", "i", "d", "d", "e", "n">>},
        photos \in {<<>>, << <<"data:image/png;base64,AAAA">> >>},
        isMultiItem \in BOOLEAN,
        lineItems \in LineItemLists }

\* a behaviour starts with the input the validator is about to be given
InitChecklist ==
    /\ store = <<>>
    /\ now = 0
    /\ calls = 0
    /\ last \in {[NoCall EXCEPT !.arg = input] : input \in ChecklistInputs}
    /\ inflight = [slot \in 1..MaxInflight |-> [pc |-> "idle"]]
    /\ outbox = <<>>
    /\ notices = <<>>
    /\ env = [NEW_CO_NOTIFY_TO |-> None]

\* evaluateChecklist(input)
EvaluateChecklist ==
    /\ last.op = "none"
    /\ last' = Call("evaluateChecklist", UnknownId, last.arg, <<>>,
                  evaluateChecklist(last.arg))
    /\ UNCHANGED <<store, now, calls, inflight, outbox, notices, env>>

NextChecklist == EvaluateChecklist

SpecChecklist == InitChecklist /\ [][NextChecklist]_vars


-----------------------------------------------------------------------------
(* Properties of the store and of the handlers.  Each is stated over the latest
   call: `last` holds its arguments and result, last.pre the store it found
   and `store` the store it left. *)

\* the record the latest call was made on, as the call found it and as it left it
Before == Stored(last.pre, last.id)
After == Stored(store, last.id)

\* what the first and the last clock read of the latest call gave
FirstRead == Read(last.at, 1)
LatestRead == Read(last.at, Len(last.at))

\* the clock as the latest call found it: its first read, or where the clock
\* stands when the call read none
CalledAt == IF last.at = <<>> THEN now ELSE FirstRead

TerminalTeamStatuses == {"APPROVED", "DENIED"}

\* C1: in every reachable state of the store every record has isFinalized true
\* exactly when its teamStatus is APPROVED or DENIED.
C1_FinalizedIffTerminalTeamStatus ==
    \A i \in 1..Len(store) :
        store[i].isFinalized <=> store[i].teamStatus \in TerminalTeamStatuses

\* C2: applyTeamDecision on a finalized record returns the current record and
\* leaves the whole store as it was, whatever the action.
C2_DecisionOnFinalizedIsNoOp ==
    (last.op = "applyTeamDecision" /\ IsSome(Before) /\ Before[1].isFinalized)
        => (last.ret = Before /\ store = last.pre)

\* a DENY was applied to a record an APPROVE had finalized
C2_Witness ==
    /\ last.op = "applyTeamDecision"
    /\ last.arg.action = "DENY"
    /\ IsSome(Before)
    /\ Before[1].isFinalized
    /\ Before[1].decisionStatus = "APPROVED"

\* the delivery-status fields, and updatedAt
DeliveryFields ==
    { "decisionEmailStatus", "decisionEmailSentAt", "decisionEmailError",
      "decisionEmailPreviewUrl", "decisionEmailMode", "updatedAt" }

\* C3: a record that is finalized stays in its place in the store, stays
\* finalized and keeps its decision fields, reviewer notes and generated email
\* through every call; only delivery-status fields and updatedAt may change.
C3_FinalizationIsIrreversible ==
    \A i \in 1..Len(last.pre) :
        last.pre[i].isFinalized =>
            /\ i <= Len(store)
            /\ store[i].isFinalized
            /\ \A f \in DOMAIN store[i] \ DeliveryFields :
                    store[i][f] = last.pre[i][f]

\* a delivery outcome was recorded on a finalized record and changed it
C3_Witness ==
    /\ last.op = "updateDecisionEmailDelivery"
    /\ IsSome(Before)
    /\ Before[1].isFinalized
    /\ After[1].decisionEmailStatus = "SENT"
    /\ After # Before

\* C4: a final submit of a schema-valid input appends exactly one record and
\* returns it; the record is BLOCKED iff the checklist has a violation or the work
\* is past 24 hours, and then its blockingReasons are the checklist messages in
\* evaluation order followed, when late, by the lateness message; otherwise it is
\* SUBMITTED with submittedAt set.  The work is past 24 hours when isPast24Hours
\* finds it so at its own read of the clock, which comes before those of the
\* save; submittedAt is the last read of the call.
C4_SubmitCreatesOneRecord ==
    (last.op = "POST submit" /\ changeOrderInputSchema(last.arg).success) =>
        LET data == changeOrderInputSchema(last.arg).data
            violations == evaluateChecklist(data)
            messages == [i \in 1..Len(violations) |-> violations[i].message]
            late == isPast24Hours(data.workPerformedAt, last.at)
            record == store[Len(store)]
        IN  /\ Len(store) = Len(last.pre) + 1
            /\ SubSeq(store, 1, Len(last.pre)) = last.pre
            /\ last.ret = Some(record)
            /\ record.input = data
            /\ record.status \in {"BLOCKED", "SUBMITTED"}
            /\ record.status = "BLOCKED" <=> (Len(violations) > 0 \/ late)
            /\ record.status = "BLOCKED" =>
                    /\ record.blockingReasons =
                            Some(messages \o (IF late THEN <<LateReason>> ELSE <<>>))
                    /\ record.submittedAt = None
            /\ record.status = "SUBMITTED" => record.submittedAt = Some(LatestRead)

\* a submit was blocked for checklist violations and for lateness together
C4_Witness ==
    /\ last.op = "POST submit"
    /\ IsSome(last.ret)
    /\ last.ret[1].status = "BLOCKED"
    /\ Len(last.ret[1].blockingReasons[1]) >= 2
    /\ last.ret[1].blockingReasons[1][Len(last.ret[1].blockingReasons[1])] = LateReason

\* the steps of a decision request
DecisionSteps == {"decision received", "decision applied", "POST decision"}

\* C5: a decision request against a DRAFT or BLOCKED record is rejected with
\* 422 whatever its action, APPROVE and DENY included, and changes nothing; such
\* a record is never finalized, keeps decisionStatus PENDING and has no email
\* fields.
C5_DecisionOnUnsubmittedRejected ==
    /\ (last.op \in DecisionSteps /\ IsSome(Before)
            /\ Before[1].status \in {"DRAFT", "BLOCKED"})
        => (last.op = "POST decision" /\ last.http = 422 /\ store = last.pre)
    /\ \A i \in 1..Len(store) :
            store[i].status \in {"DRAFT", "BLOCKED"} =>
                /\ ~ store[i].isFinalized
                /\ store[i].decisionStatus = "PENDING"
                /\ store[i].decisionEmailTo = None
                /\ store[i].decisionEmailSubject = None
                /\ store[i].decisionEmailBody = None
                /\ store[i].decisionEmailHtml = None

\* a decision request on a BLOCKED record was answered 422
C5_Witness ==
    /\ last.op = "POST decision"
    /\ last.http = 422
    /\ IsSome(Before)
    /\ Before[1].status = "BLOCKED"
    /\ After = Before

\* C6: a decision request on a non-finalized record is not turned away for the
\* record's submission status.  The handler answers before it reads the body, so
\* what it answers holds for every action, NEEDS_INFO included.
C6_NeedsInfoAcceptedFromAnyState ==
    (last.op \in DecisionSteps /\ last.arg = <<>> /\ IsSome(Before)
        /\ ~ Before[1].isFinalized)
    => last.op = "decision received"

\* applyTeamDecision was the latest call, with `action`, on a record it found
\* not finalized
Decided(action) ==
    /\ last.op = "applyTeamDecision"
    /\ last.arg.action = action
    /\ IsSome(Before)
    /\ ~ Before[1].isFinalized

\* the text holds `token` as one of the pieces it is put together from
HasToken(s, token) == \E i \in 1..Len(s) : s[i] = token

\* C7: applyTeamDecision with APPROVE on a non-finalized record stores and
\* returns a record with teamStatus and decisionStatus APPROVED, isFinalized
\* true, approvedAmount the decision's amount, no denialReasonCode, an empty
\* needsInfoChecklist, decisionEmailStatus PENDING and a subject containing
\* "approved", whatever was applied to the record before.
C7_ApproveFinalizes ==
    Decided("APPROVE") =>
        /\ last.ret = After
        /\ After[1].teamStatus = "APPROVED"
        /\ After[1].decisionStatus = "APPROVED"
        /\ After[1].isFinalized
        /\ After[1].approvedAmount = last.arg.approvedAmount
        /\ IsSome(After[1].approvedAmount)
        /\ After[1].denialReasonCode = None
        /\ After[1].needsInfoChecklist = <<>>
        /\ After[1].decisionEmailStatus = "PENDING"
        /\ IsSome(After[1].decisionEmailSubject)
        /\ HasToken(After[1].decisionEmailSubject[1], "approved")

\* an APPROVE took effect on a record an earlier NEEDS_INFO had left a
\* checklist on
C7_Witness ==
    /\ Decided("APPROVE")
    /\ Before[1].decisionStatus = "NEEDS_INFO"
    /\ Len(Before[1].needsInfoChecklist) > 0
    /\ After[1].isFinalized

\* C8: applyTeamDecision with DENY on a non-finalized record stores and returns
\* a record with teamStatus and decisionStatus DENIED, isFinalized true,
\* denialReasonCode the decision's code, no approvedAmount and an empty
\* needsInfoChecklist, whatever was applied to the record before.
C8_DenyFinalizes ==
    Decided("DENY") =>
        /\ last.ret = After
        /\ After[1].teamStatus = "DENIED"
        /\ After[1].decisionStatus = "DENIED"
        /\ After[1].isFinalized
        /\ After[1].denialReasonCode = last.arg.denialReasonCode
        /\ IsSome(After[1].denialReasonCode)
        /\ After[1].approvedAmount = None
        /\ After[1].needsInfoChecklist = <<>>

\* a DENY took effect on a record a queue update had marked APPROVED
C8_Witness ==
    /\ Decided("DENY")
    /\ Before[1].teamStatus = "APPROVED"
    /\ After[1].decisionStatus = "DENIED"

\* the decisionStatus an action leads to
StatusOf(action) ==
    IF action = "APPROVE" THEN "APPROVED"
    ELSE IF action = "DENY" THEN "DENIED" ELSE "NEEDS_INFO"

\* C9: applyTeamDecision with NEEDS_INFO on a non-finalized record stores and
\* returns a record with teamStatus and decisionStatus NEEDS_INFO, the supplied
\* needsInfoChecklist, no approvedAmount, no denialReasonCode and isFinalized
\* false; a record in decisionStatus NEEDS_INFO is never finalized, and the next
\* decision on it, whatever its action, takes effect.
C9_NeedsInfoIsRevisitable ==
    /\ Decided("NEEDS_INFO") =>
            /\ last.ret = After
            /\ After[1].teamStatus = "NEEDS_INFO"
            /\ After[1].decisionStatus = "NEEDS_INFO"
            /\ After[1].needsInfoChecklist = last.arg.needsInfoChecklist
            /\ After[1].approvedAmount = None
            /\ After[1].denialReasonCode = None
            /\ ~ After[1].isFinalized
    /\ \A i \in 1..Len(store) :
            store[i].decisionStatus = "NEEDS_INFO" => ~ store[i].isFinalized
    /\ (last.op = "applyTeamDecision" /\ IsSome(Before)
            /\ Before[1].decisionStatus = "NEEDS_INFO")
        => /\ After[1].decisionStatus = StatusOf(last.arg.action)
           /\ After[1].decisionBy = Some(last.arg.decidedBy)
           /\ After[1].decisionAt = Some(FirstRead)
           /\ After[1].updatedAt = FirstRead

\* a second NEEDS_INFO took effect on a record in NEEDS_INFO and replaced the
\* checklist
C9_Witness ==
    /\ Decided("NEEDS_INFO")
    /\ Before[1].decisionStatus = "NEEDS_INFO"
    /\ After[1].decisionStatus = "NEEDS_INFO"
    /\ After[1].needsInfoChecklist # Before[1].needsInfoChecklist
    /\ After[1].needsInfoChecklist = last.arg.needsInfoChecklist

\* C10: when a decision takes effect on a record, the record it leaves has
\* decisionEmailStatus PENDING and none of decisionEmailSentAt,
\* decisionEmailError, decisionEmailPreviewUrl and decisionEmailMode set.
C10_DecisionClearsDeliveryMetadata ==
    (last.op = "decision applied" /\ IsSome(Before) /\ ~ Before[1].isFinalized) =>
        /\ After[1].decisionEmailStatus = "PENDING"
        /\ After[1].decisionEmailSentAt = None
        /\ After[1].decisionEmailError = None
        /\ After[1].decisionEmailPreviewUrl = None
        /\ After[1].decisionEmailMode = None

\* C11: updateDecisionEmailDelivery on a stored record, finalized or not, leaves
\* decisionEmailStatus, decisionEmailError, decisionEmailPreviewUrl and
\* decisionEmailMode equal to the values of that call alone: a field the call
\* omits is cleared, whatever an earlier call had set.
C11_DeliveryIsLastWriteWins ==
    (last.op = "updateDecisionEmailDelivery" /\ IsSome(Before)) =>
        /\ last.ret = After
        /\ After[1].decisionEmailStatus = last.arg.status
        /\ After[1].decisionEmailError = last.arg.error
        /\ After[1].decisionEmailPreviewUrl = last.arg.previewUrl
        /\ After[1].decisionEmailMode = last.arg.mode
        /\ After[1].decisionEmailSentAt = Some(OrElse(last.arg.sentAt, FirstRead))
        /\ After[1].updatedAt = LatestRead

\* a FAILED outcome without preview URL or mode was recorded over a SENT one
\* that had both
C11_Witness ==
    /\ last.op = "updateDecisionEmailDelivery"
    /\ IsSome(Before)
    /\ Before[1].decisionEmailStatus = "SENT"
    /\ IsSome(Before[1].decisionEmailPreviewUrl)
    /\ IsSome(Before[1].decisionEmailMode)
    /\ last.arg.status = "FAILED"
    /\ After[1].decisionEmailPreviewUrl = None
    /\ After[1].decisionEmailMode = None

\* C12: updateDecisionEmailDelivery, whatever the status it records, changes
\* only the delivery-status fields and updatedAt of the record it addresses:
\* the decision, the reviewer notes, the submission status and the generated
\* email stay as they were, and every other record is left unchanged.
C12_DeliveryLeavesDecision ==
    last.op = "updateDecisionEmailDelivery" =>
        /\ Len(store) = Len(last.pre)
        /\ \A i \in 1..Len(store) :
              IF i = findIndex(last.pre, last.id)
              THEN \A f \in DOMAIN store[i] \ DeliveryFields :
                      store[i][f] = last.pre[i][f]
              ELSE store[i] = last.pre[i]

\* a FAILED outcome was recorded on an approved record, which stays approved
C12_Witness ==
    /\ last.op = "updateDecisionEmailDelivery"
    /\ last.arg.status = "FAILED"
    /\ IsSome(Before)
    /\ Before[1].decisionStatus = "APPROVED"
    /\ After[1].decisionEmailStatus = "FAILED"
    /\ After[1].decisionStatus = "APPROVED"
    /\ After[1].isFinalized

\* the fields updateTeamQueueItem may write
QueueFields == {"teamStatus", "reviewerNotes", "updatedAt"}

\* C13: updateTeamQueueItem on a finalized record returns the current record
\* and leaves the store as it was; on a non-finalized record it sets teamStatus
\* and reviewerNotes to the provided values, keeps the value of an omitted one,
\* sets updatedAt, returns the stored record and changes no other field and no
\* other record.
C13_QueueUpdateFrame ==
    (last.op = "updateTeamQueueItem" /\ IsSome(Before)) =>
        IF Before[1].isFinalized
        THEN last.ret = Before /\ store = last.pre
        ELSE /\ last.ret = After
             /\ After[1].teamStatus =
                    OrElse(last.arg.teamStatus, Before[1].teamStatus)
             /\ After[1].reviewerNotes =
                    OrElse(last.arg.reviewerNotes, Before[1].reviewerNotes)
             /\ After[1].updatedAt = FirstRead
             /\ \A f \in DOMAIN After[1] \ QueueFields : After[1][f] = Before[1][f]
             /\ Len(store) = Len(last.pre)
             /\ \A i \in 1..Len(store) :
                    i # findIndex(last.pre, last.id) => store[i] = last.pre[i]

\* reviewer notes alone were set on a record in NEEDS_INFO, whose team status,
\* decision and generated email stay
C13_Witness ==
    /\ last.op = "updateTeamQueueItem"
    /\ IsSome(Before)
    /\ Before[1].decisionStatus = "NEEDS_INFO"
    /\ last.arg.teamStatus = None
    /\ IsSome(last.arg.reviewerNotes)
    /\ After[1].reviewerNotes = last.arg.reviewerNotes[1]
    /\ After[1].reviewerNotes # Before[1].reviewerNotes
    /\ After[1].teamStatus = "NEEDS_INFO"

\* C14: no call changes the submission status, the input or the blocking
\* reasons of a stored record: they are what the record was created with.
C14_SubmissionIsFixedAtCreation ==
    /\ Len(store) >= Len(last.pre)
    /\ \A i \in 1..Len(last.pre) :
          /\ store[i].status = last.pre[i].status
          /\ store[i].input = last.pre[i].input
          /\ store[i].blockingReasons = last.pre[i].blockingReasons

\* a decision took effect on a BLOCKED record, which keeps its reasons
C14_Witness ==
    /\ last.op = "applyTeamDecision"
    /\ IsSome(Before)
    /\ Before[1].status = "BLOCKED"
    /\ After[1].decisionStatus # Before[1].decisionStatus
    /\ After[1].status = "BLOCKED"
    /\ IsSome(After[1].blockingReasons)

\* C15: no two records of the store share an id.
C15_IdsAreUnique ==
    \A i, j \in 1..Len(store) : store[i].id = store[j].id => i = j

\* the store functions of intake
IntakeCalls == {"saveDraft", "saveSubmission", "saveBlocked"}

\* C16: saveDraft, saveSubmission and saveBlocked append exactly one record,
\* which they return, and leave every stored record as it was; no call removes a
\* record or moves it to another place in the store.
C16_IntakeOnlyAppends ==
    /\ last.op \in IntakeCalls =>
          /\ Len(store) = Len(last.pre) + 1
          /\ SubSeq(store, 1, Len(last.pre)) = last.pre
          /\ last.ret = Some(store[Len(store)])
    /\ last.op \notin IntakeCalls => Len(store) = Len(last.pre)
    /\ \A i \in 1..Len(last.pre) :
          /\ i <= Len(store)
          /\ store[i].id = last.pre[i].id
          /\ store[i].createdAt = last.pre[i].createdAt

\* a submission was saved into a store holding a record under review
C16_Witness ==
    /\ last.op = "saveSubmission"
    /\ Len(last.pre) >= 1
    /\ last.pre[1].decisionStatus # "PENDING"
    /\ Len(store) = Len(last.pre) + 1
    /\ store[Len(store)].status = "SUBMITTED"

\* C17: a draft is saved as given, complete or not: the new record has status
\* DRAFT, teamStatus NEW, decisionStatus PENDING, isFinalized false and
\* decisionEmailStatus PENDING, holds the input with the defaults filled in, and
\* carries no blockingReasons and no submittedAt, whatever the checklist or the
\* 24-hour rule would say of the input.
C17_DraftIsSavedUnvalidated ==
    (last.op = "POST draft" /\ changeOrderDraftInputSchema(last.arg).success) =>
        LET record == store[Len(store)]
        IN  /\ last.http = 200
            /\ Len(store) = Len(last.pre) + 1
            /\ last.ret = Some(record)
            /\ record.input = normalizeDraftInput(changeOrderDraftInputSchema(last.arg).data)
            /\ record.status = "DRAFT"
            /\ record.teamStatus = "NEW"
            /\ record.decisionStatus = "PENDING"
            /\ ~ record.isFinalized
            /\ record.decisionEmailStatus = "PENDING"
            /\ record.blockingReasons = None
            /\ record.submittedAt = None

\* a draft was saved whose input breaks checklist rules and has no usable
\* work timestamp
C17_Witness ==
    /\ last.op = "POST draft"
    /\ IsSome(last.ret)
    /\ last.ret[1].status = "DRAFT"
    /\ Len(evaluateChecklist(last.ret[1].input)) > 0
    /\ isPast24Hours(last.ret[1].input.workPerformedAt, last.at)

\* C18: a final submit whose input breaks a checklist rule - whichever rule it
\* is - is not refused: a record is created and persisted with status BLOCKED,
\* and its blockingReasons carry the message of every rule the input breaks.
\* The input is the request body with the schema's defaults filled in.
C18_ChecklistFailureIsPersisted ==
    LET body == changeOrderInputSchema(last.arg).data
        violations == evaluateChecklist(body)
    IN  ( /\ last.op = "POST submit"
          /\ (InputFields \ DOMAIN InputDefaults) \subseteq DOMAIN last.arg
          /\ Len(violations) > 0 ) =>
            /\ Len(store) = Len(last.pre) + 1
            /\ last.ret = Some(store[Len(store)])
            /\ store[Len(store)].status = "BLOCKED"
            /\ IsSome(store[Len(store)].blockingReasons)
            /\ \A i \in 1..Len(violations) :
                    \E j \in 1..Len(store[Len(store)].blockingReasons[1]) :
                        store[Len(store)].blockingReasons[1][j] = violations[i].message

\* the codes of the violations returned by the latest evaluateChecklist call
ReturnedCodes == [i \in 1..Len(last.ret) |-> last.ret[i].code]

HasCode(code) == \E i \in 1..Len(last.ret) : last.ret[i].code = code

\* C19 as stated: evaluateChecklist returns a scope_missing violation for every
\* input whose scope is the empty string, and none for every input whose scope
\* is a non-empty string.
C19_ScopeMissingIffEmpty ==
    last.op = "evaluateChecklist" =>
        (HasCode(<<"scope_missing">>) <=> last.arg.scope = EmptyStr)

\* C19, amended: evaluateChecklist returns a scope_missing violation, once and
\* with its message, for every input whose scope is empty or only whitespace,
\* and none for every input whose scope holds a character that is not whitespace.
C19_ScopeMissingIffBlank ==
    last.op = "evaluateChecklist" =>
        LET blank == \A i \in 1..Len(last.arg.scope) : last.arg.scope[i] \in Whitespace
            hits == {i \in 1..Len(last.ret) : last.ret[i].code = <<"scope_missing">>}
        IN  /\ blank => /\ Cardinality(hits) = 1
                        /\ last.ret[1] = Violation(<<"scope_missing">>,
                                                   <<"Scope of change order is required.">>)
            /\ ~ blank => hits = {}

\* a whitespace-only scope was reported as missing
C19_Witness ==
    /\ last.op = "evaluateChecklist"
    /\ last.arg.scope = <<" ", NoBreakSpace>>
    /\ HasCode(<<"scope_missing">>)

\* text that is empty or only whitespace
Blank(s) == \A i \in 1..Len(s) : s[i] \in Whitespace

\* the codes of the rules that do not depend on a line item, in evaluation order
FixedRuleOrder ==
    << <<"scope_missing">>, <<"quantity_missing">>, <<"pricing_invalid">>,
       <<"additional_charges_reason_missing">>, <<"unit_price_unclear">>,
       <<"justification_missing">>, <<"turnkey_justification_missing">>,
       <<"photos_missing">>, <<"line_items_missing">> >>

\* the condition of each of those rules, taken on its own
RuleHolds(code, input) ==
    CASE code = <<"scope_missing">> -> Blank(input.scope)
      [] code = <<"quantity_missing">> -> input.quantity <= 0
      [] code = <<"pricing_invalid">> -> input.materialCost < 0 \/ input.laborCost < 0
      [] code = <<"additional_charges_reason_missing">> ->
            input.additionalCharges > 0 /\ Blank(input.additionalChargesReason)
      [] code = <<"unit_price_unclear">> ->
            /\ input.quantity > 0
            /\ DivLeqZero(JsPlus(JsPlus(input.materialCost, input.laborCost),
                                 input.additionalCharges), input.quantity)
      [] code = <<"justification_missing">> -> Blank(input.whyNeeded)
      [] code = <<"turnkey_justification_missing">> -> Blank(input.whyNotInTurnKey)
      [] code = <<"photos_missing">> -> Len(input.photos) = 0
      [] code = <<"line_items_missing">> -> input.isMultiItem /\ Len(input.lineItems) < 2

\* the 1-based positions of the line items that break the per-line-item rule
OffendingItems(input) ==
    IF input.isMultiItem
    THEN {i \in 1..Len(input.lineItems) :
            \/ Blank(input.lineItems[i].description)
            \/ input.lineItems[i].quantity <= 0
            \/ input.lineItems[i].unitPrice < 0}
    ELSE {}

\* C20: evaluateChecklist evaluates every rule independently: the codes it
\* returns are exactly the rules whose condition holds for the input, no rule
\* suppressing another, in the fixed order scope, quantity, pricing,
\* additional-charges reason, unit price, justification, turnkey justification,
\* photos, line-item count, then one code per offending line item in position
\* order; an input that breaks no rule gets the empty list.
C20_RulesAreIndependentAndOrdered ==
    last.op = "evaluateChecklist" =>
        LET input == last.arg
            Fires(code) == RuleHolds(code, input)
            fixed == SelectSeq(FixedRuleOrder, Fires)
            offending == OffendingItems(input)
        IN  /\ Len(ReturnedCodes) = Len(fixed) + Cardinality(offending)
            /\ SubSeq(ReturnedCodes, 1, Len(fixed)) = fixed
            /\ \A i \in offending :
                    ReturnedCodes[Len(fixed) + Cardinality({j \in offending : j <= i})]
                        = <<"line_item_", ToString(i), "_invalid">>
            /\ (fixed = <<>> /\ offending = {}) => last.ret = <<>>

\* one input broke the first, the third and the fifth rule and, of its two line
\* items, the per-line-item rule at the second only
C20_Witness ==
    /\ last.op = "evaluateChecklist"
    /\ ReturnedCodes = << <<"scope_missing">>, <<"pricing_invalid">>,
                          <<"unit_price_unclear">>,
                          <<"line_item_", "2", "_invalid">> >>

\* materialCost + laborCost + additionalCharges of the latest evaluateChecklist input
TotalCostGiven ==
    JsPlus(JsPlus(last.arg.materialCost, last.arg.laborCost), last.arg.additionalCharges)

UnitPriceFlagged == HasCode(<<"unit_price_unclear">>)

\* C21 as stated: unit_price_unclear is never emitted when quantity <= 0, and
\* for quantity > 0 it is emitted exactly when totalCost <= 0.
C21_UnitPriceIffTotalNotPositive ==
    last.op = "evaluateChecklist" =>
        (UnitPriceFlagged <=> (last.arg.quantity > 0 /\ TotalCostGiven <= 0))

\* C21, amended: unit_price_unclear is emitted, once, iff quantity > 0 and the
\* double totalCost / quantity is <= 0: never when quantity <= 0; for
\* quantity > 0 whenever totalCost <= 0, and also for a positive totalCost so
\* small that the quotient rounds to zero (a subnormal k * 2^-1074 with
\* 2 * k <= quantity).
C21_UnitPriceIffQuotientNotPositive ==
    last.op = "evaluateChecklist" =>
        LET quantity == last.arg.quantity
            underflows == /\ IsSubnormal(TotalCostGiven) /\ TotalCostGiven > 0
                          /\ 2 * Units(TotalCostGiven) <= quantity
        IN  /\ UnitPriceFlagged <=> (quantity > 0 /\ (TotalCostGiven <= 0 \/ underflows))
            /\ quantity <= 0 => ~ UnitPriceFlagged
            /\ Cardinality({i \in 1..Len(last.ret) :
                                last.ret[i].code = <<"unit_price_unclear">>}) <= 1

\* a positive total of Number.MIN_VALUE over a quantity of 2 was flagged
C21_Witness ==
    /\ last.op = "evaluateChecklist"
    /\ last.arg.quantity = 2
    /\ TotalCostGiven = Subnormal(1)
    /\ UnitPriceFlagged

\* how many times the latest evaluateChecklist call returned `code`
TimesReturned(code) == Cardinality({i \in 1..Len(last.ret) : last.ret[i].code = code})

\* the codes line_item_{k}_invalid the latest call returned
LineItemCodesReturned ==
    {ReturnedCodes[i] : i \in {j \in 1..Len(ReturnedCodes) :
                                    Len(ReturnedCodes[j]) = 3 /\ ReturnedCodes[j][1] = "line_item_"}}

CodeOfLineItem(k) == <<"line_item_", ToString(k), "_invalid">>

\* C22 as stated: for a multi-item input evaluateChecklist emits
\* line_items_missing iff there are fewer than two line items, and exactly one
\* line_item_{k}_invalid, k the 1-based position, for each line item with an
\* empty description, quantity <= 0 or unitPrice < 0; with isMultiItem true and
\* two line items none of which is such an item, and with isMultiItem false
\* whatever the line items, it emits no line-item violation.
C22_LineItemRulesAsStated ==
    last.op = "evaluateChecklist" =>
        LET items == last.arg.lineItems
            Offends(item) == \/ item.description = EmptyStr
                             \/ item.quantity <= 0
                             \/ item.unitPrice < 0
        IN  /\ last.arg.isMultiItem =>
                /\ HasCode(<<"line_items_missing">>) <=> Len(items) < 2
                /\ \A k \in 1..Len(items) :
                        Offends(items[k]) => TimesReturned(CodeOfLineItem(k)) = 1
                /\ (Len(items) = 2 /\ \A k \in 1..2 : ~ Offends(items[k])) =>
                        /\ ~ HasCode(<<"line_items_missing">>)
                        /\ LineItemCodesReturned = {}
            /\ ~ last.arg.isMultiItem =>
                /\ ~ HasCode(<<"line_items_missing">>)
                /\ LineItemCodesReturned = {}

\* C22, amended: for a multi-item input evaluateChecklist emits
\* line_items_missing iff there are fewer than two line items, and exactly one
\* line_item_{k}_invalid, k the 1-based position, for each line item whose
\* description is empty or only whitespace, whose quantity is <= 0 or whose
\* unitPrice is < 0, and none for the other items; with isMultiItem false it
\* emits no line-item violation whatever the line items.
C22_LineItemRules ==
    last.op = "evaluateChecklist" =>
        LET items == last.arg.lineItems
            Offends(item) == \/ Blank(item.description)
                             \/ item.quantity <= 0
                             \/ item.unitPrice < 0
            CodeOf(k) == <<"line_item_", ToString(k), "_invalid">>
        IN  /\ last.arg.isMultiItem =>
                /\ HasCode(<<"line_items_missing">>) <=> Len(items) < 2
                /\ TimesReturned(<<"line_items_missing">>) <= 1
                /\ \A k \in 1..Len(items) :
                        TimesReturned(CodeOf(k)) = (IF Offends(items[k]) THEN 1 ELSE 0)
                /\ LineItemCodesReturned \subseteq {CodeOf(k) : k \in 1..Len(items)}
            /\ ~ last.arg.isMultiItem =>
                /\ ~ HasCode(<<"line_items_missing">>)
                /\ LineItemCodesReturned = {}

\* of the two line items of a multi-item input the second, whose description is
\* a no-break space and whose quantity and price are in order, was reported
\* under its number, and nothing else about the line items
C22_Witness ==
    /\ last.op = "evaluateChecklist"
    /\ last.arg.isMultiItem
    /\ Len(last.arg.lineItems) = 2
    /\ ~ Blank(last.arg.lineItems[1].description)
    /\ last.arg.lineItems[1].quantity > 0
    /\ last.arg.lineItems[1].unitPrice >= 0
    /\ last.arg.lineItems[2].description = <<NoBreakSpace>>
    /\ last.arg.lineItems[2].quantity > 0
    /\ last.arg.lineItems[2].unitPrice >= 0
    /\ TimesReturned(<<"line_item_", "2", "_invalid">>) = 1
    /\ LineItemCodesReturned = {<<"line_item_", "2", "_invalid">>}
    /\ ~ HasCode(<<"line_items_missing">>)

\* C23: isPast24Hours is true for an unparseable timestamp and otherwise true
\* iff strictly more than 24 hours have elapsed (false at exactly 24 hours), and
\* a final submit whose timestamp it calls late is always BLOCKED: a record is
\* created with status BLOCKED and the lateness message among its reasons.
C23_LateSubmitIsBlocked ==
    ( /\ last.op = "POST submit"
      /\ "workPerformedAt" \in DOMAIN last.arg
      /\ ~ last.arg.workPerformedAt.empty ) =>
        LET given == last.arg.workPerformedAt
            late == ~ given.parses \/ CalledAt - given.ms > DayMs
        IN  /\ isPast24Hours(given, <<CalledAt>>) <=> late
            /\ late =>
                /\ Len(store) = Len(last.pre) + 1
                /\ last.ret = Some(store[Len(store)])
                /\ store[Len(store)].status = "BLOCKED"
                /\ IsSome(store[Len(store)].blockingReasons)
                /\ \E i \in 1..Len(store[Len(store)].blockingReasons[1]) :
                        store[Len(store)].blockingReasons[1][i] = LateReason

\* C24: an identifier that resolves to no record signals absence and never
\* raises.  When a queue-update or decision request names such an identifier,
\* getChangeOrderById, updateTeamQueueItem, applyTeamDecision and
\* updateDecisionEmailDelivery return null for it on the store the request
\* found and leave that store as it is, whatever their argument; the endpoint
\* answers 404, a status no validation failure gets (400 or 422), and changes
\* nothing.
C24_UnknownIdSignalsAbsence ==
    /\ (last.op \in {"PATCH", "POST decision"} /\ Before = None) =>
            /\ findIndex(last.pre, last.id) = -1
            /\ getChangeOrderById(last.pre, last.id, last.at) = None
            /\ \A updates \in QueueUpdates :
                    updateTeamQueueItem(last.pre, last.id, updates, last.at)
                        = Result(last.pre, None, 0)
            /\ \A decision \in Decisions :
                    applyTeamDecision(last.pre, last.id, decision, last.at)
                        = Result(last.pre, None, 0)
            /\ \A delivery \in Deliveries :
                    updateDecisionEmailDelivery(last.pre, last.id, delivery, last.at)
                        = Result(last.pre, None, 0)
    /\ (last.op = "PATCH" /\ Before = None) =>
            /\ store = last.pre /\ last.ret = None
            /\ last.http = (IF updateSchema(last.arg).success THEN 404 ELSE 400)
    /\ (last.op \in DecisionSteps /\ Before = None) =>
            /\ last.op = "POST decision" /\ last.http = 404
            /\ store = last.pre /\ last.ret = None
    /\ (last.op \in {"PATCH", "POST decision"} /\ last.http = 404) => Before = None

\* a queue update with a well-formed body named an identifier that none of the
\* stored records has, and was answered 404
C24_Witness ==
    /\ last.op = "PATCH"
    /\ Len(last.pre) > 0
    /\ Before = None
    /\ updateSchema(last.arg).success
    /\ last.http = 404

\* C25: when the work of a record was performed more than 24 hours ago, an
\* APPROVE decision request on it that does not carry
\* acknowledgeLateSubmission = true is rejected with 422, and the record stays
\* as it was, not finalized.
C25_LateApprovalNeedsAcknowledgment ==
    ( /\ last.op \in {"decision applied", "POST decision"}
      /\ last.arg # <<>>
      /\ decisionSchema(last.arg).success
      /\ decisionSchema(last.arg).data.action = "APPROVE"
      /\ ~ decisionSchema(last.arg).data.acknowledgeLateSubmission
      /\ IsSome(Before)
      /\ ~ Before[1].isFinalized
      /\ isPast24Hours(Before[1].input.workPerformedAt, <<CalledAt>>) ) =>
        /\ last.op = "POST decision"
        /\ last.http = 422
        /\ store = last.pre
        /\ ~ After[1].isFinalized

\* C26: a decision request against an already finalized record is a no-op end
\* to end: no notification is handed to the transport for it, and once its
\* delivery has been recorded no later decision request changes any field of
\* the record, the delivery fields included.
C26_DecisionOnFinalizedSendsNothing ==
    /\ (last.op = "decision applied" /\ IsSome(Before)) => ~ Before[1].isFinalized
    /\ ( /\ last.op = "POST decision"
         /\ last.arg # <<>>
         /\ IsSome(Before)
         /\ Before[1].isFinalized
         /\ Before[1].decisionEmailStatus # "PENDING" ) => store = last.pre

\* C27: the stored notification always matches the stored decision.  In every
\* reachable state a record with decisionStatus PENDING has no
\* decisionEmailSubject and no decisionEmailBody, and a record with
\* decisionStatus APPROVED, DENIED or NEEDS_INFO has the subject, body and HTML
\* that buildDecisionEmailContent derives from the record as stored now: the
\* approved, the denied and the more-information-needed text respectively.
C27_StoredMailMatchesDecision ==
    \A i \in 1..Len(store) :
        LET record == store[i]
            content == buildDecisionEmailContent(record)
            word == CASE record.decisionStatus = "APPROVED" -> "approved"
                      [] record.decisionStatus = "DENIED" -> "denied"
                      [] OTHER -> "More information needed"
        IN  IF record.decisionStatus = "PENDING"
            THEN /\ record.decisionEmailSubject = None
                 /\ record.decisionEmailBody = None
                 /\ record.decisionEmailHtml = None
            ELSE /\ record.decisionStatus \in {"APPROVED", "DENIED", "NEEDS_INFO"}
                 /\ record.decisionEmailSubject = Some(content.subject)
                 /\ record.decisionEmailBody = Some(content.body)
                 /\ record.decisionEmailHtml = Some(content.html)
                 /\ \E k \in 1..Len(content.subject) : content.subject[k] = word

\* a record was sent back for information and then approved: the stored
\* subject and body changed to the approval text
C27_Witness ==
    /\ last.op = "applyTeamDecision"
    /\ IsSome(Before) /\ IsSome(After)
    /\ Before[1].decisionStatus = "NEEDS_INFO"
    /\ After[1].decisionStatus = "APPROVED"
    /\ After[1].decisionEmailSubject # Before[1].decisionEmailSubject
    /\ After[1].decisionEmailBody = Some(buildDecisionEmailContent(After[1]).body)

\* C28: the action-specific decision fields are exclusive in every reachable
\* state: approvedAmount is present only when decisionStatus is APPROVED,
\* denialReasonCode only when it is DENIED, and needsInfoChecklist is non-empty
\* only when it is NEEDS_INFO.
C28_DecisionFieldsAreExclusive ==
    \A i \in 1..Len(store) :
        /\ IsSome(store[i].approvedAmount) => store[i].decisionStatus = "APPROVED"
        /\ IsSome(store[i].denialReasonCode) => store[i].decisionStatus = "DENIED"
        /\ Len(store[i].needsInfoChecklist) > 0 => store[i].decisionStatus = "NEEDS_INFO"

\* a record that had been sent back with a checklist of missing items was
\* denied: it carries the denial code and no checklist any more
C28_Witness ==
    /\ last.op = "applyTeamDecision"
    /\ IsSome(Before) /\ IsSome(After)
    /\ Len(Before[1].needsInfoChecklist) > 0
    /\ After[1].decisionStatus = "DENIED"
    /\ IsSome(After[1].denialReasonCode)
    /\ After[1].needsInfoChecklist = <<>>
    /\ After[1].approvedAmount = None

\* C29: blockingReasons is present on a record iff its status is BLOCKED, and
\* when present it is non-empty; SUBMITTED and DRAFT records never carry
\* blockingReasons; submittedAt is present iff the status is SUBMITTED.
C29_BlockingReasonsIffBlocked ==
    \A i \in 1..Len(store) :
        /\ IsSome(store[i].blockingReasons) <=> store[i].status = "BLOCKED"
        /\ IsSome(store[i].blockingReasons) => Len(store[i].blockingReasons[1]) > 0
        /\ IsSome(store[i].submittedAt) <=> store[i].status = "SUBMITTED"

\* the store holds a BLOCKED record with its reasons next to a SUBMITTED one
\* that a decision and its delivery have since rewritten
C29_Witness ==
    /\ last.op = "POST decision"
    /\ last.http = 200
    /\ \E i \in 1..Len(store) :
            /\ store[i].status = "BLOCKED"
            /\ Len(store[i].blockingReasons[1]) > 1
    /\ \E i \in 1..Len(store) :
            /\ store[i].status = "SUBMITTED"
            /\ store[i].isFinalized
            /\ store[i].blockingReasons = None
            /\ IsSome(store[i].submittedAt)

\* C30: the combined state (teamStatus, decisionStatus, isFinalized) of every
\* record stays inside the state machine: a new record is (NEW, PENDING, false);
\* the only states with isFinalized true are (APPROVED, APPROVED, true) and
\* (DENIED, DENIED, true); and whenever decisionStatus is NEEDS_INFO the record
\* is not finalized and its teamStatus is IN_REVIEW or NEEDS_INFO.
C30_CombinedStatesAreConfined ==
    /\ \A i \in 1..Len(store) :
            /\ store[i].isFinalized =>
                    \/ store[i].teamStatus = "APPROVED" /\ store[i].decisionStatus = "APPROVED"
                    \/ store[i].teamStatus = "DENIED" /\ store[i].decisionStatus = "DENIED"
            /\ store[i].decisionStatus = "NEEDS_INFO" =>
                    /\ ~ store[i].isFinalized
                    /\ store[i].teamStatus \in {"IN_REVIEW", "NEEDS_INFO"}
    /\ (last.op \in {"saveDraft", "saveSubmission", "saveBlocked"}) =>
            /\ store[Len(store)].teamStatus = "NEW"
            /\ store[Len(store)].decisionStatus = "PENDING"
            /\ ~ store[Len(store)].isFinalized

\* the delivery fields of `record` are those the route writes for `emailResult`
OutcomeRecorded(record, emailResult) ==
    /\ record.decisionEmailStatus = (IF emailResult.sent THEN "SENT" ELSE "FAILED")
    /\ record.decisionEmailError = emailResult.error
    /\ record.decisionEmailPreviewUrl = emailResult.previewUrl
    /\ record.decisionEmailMode = emailResult.mode
    /\ IsSome(record.decisionEmailSentAt)

\* the decision request on last.id has just been answered with the delivery
\* outcome recorded on the record
DeliveryAnswered ==
    /\ last.op = "POST decision"
    /\ last.http = 200
    /\ IsSome(After)
    /\ last.ret = After
    /\ After[1].decisionEmailStatus \in {"SENT", "FAILED"}
    /\ \E emailResult \in EmailResults : OutcomeRecorded(After[1], emailResult)

\* C31: every decision that takes effect through the decision endpoint and is
\* handed to the transport eventually gets its delivery outcome recorded,
\* provided the transport call returns: the handler leaves the await, and the
\* record's decisionEmailStatus is then SENT when the transport reported sent
\* and FAILED otherwise, with the transport's error, previewUrl and mode.
C31_DeliveryOutcomeIsRecorded ==
    \A slot \in 1..MaxRacing :
        (inflight[slot].pc = "sending")
            ~> (inflight[slot].pc = "idle" /\ DeliveryAnswered)

\* the transport refused the mail of a decision and the refusal was recorded
C31_Witness ==
    /\ DeliveryAnswered
    /\ After[1].decisionEmailStatus = "FAILED"
    /\ After[1].decisionEmailError = Some(<<"connection refused">>)
    /\ After[1].decisionEmailMode = Some("smtp")

\* the latest response is that of a decision request that got past validation
\* on a record whose contractorEmail is not valid
AnsweredOnInvalidEmail ==
    /\ last.op = "POST decision"
    /\ last.arg # <<>>
    /\ last.http = 200
    /\ IsSome(Before)
    /\ ~ hasValidContractorEmail(Before[1])

\* C32: when the record's contractor email is not valid the decision endpoint
\* still applies the decision (every field but the delivery fields is what
\* applyTeamDecision makes of it) and answers 200 with the stored record, hands
\* no mail for the record to the transport, and records decisionEmailStatus
\* FAILED with the error "Invalid contractor email address."; a mail is handed
\* to the transport only for a record that hasValidContractorEmail accepts.
C32_InvalidEmailShortCircuits ==
    /\ last.op = "decision applied" =>
          /\ hasValidContractorEmail(last.ret[1])
          /\ outbox[Len(outbox)].mail.to = last.ret[1].input.contractorEmail
    /\ \A i \in 1..Len(outbox) :
          \E j \in 1..Len(store) :
              /\ store[j].id = outbox[i].id
              /\ hasValidContractorEmail(store[j])
    /\ ( /\ last.op = "POST decision"
         /\ last.arg # <<>>
         /\ IsSome(Before)
         /\ ~ hasValidContractorEmail(Before[1])
         /\ decisionSchema(last.arg).success
         /\ ~ ( /\ decisionSchema(last.arg).data.action = "APPROVE"
                /\ decisionSchema(last.arg).data.isLate
                /\ ~ decisionSchema(last.arg).data.acknowledgeLateSubmission ) ) =>
            last.http = 200
    /\ AnsweredOnInvalidEmail =>
          LET data == decisionSchema(last.arg).data
              applied == applyTeamDecision(last.pre, last.id, DecisionArgument(data), last.at)
          IN  /\ IsSome(After)
              /\ last.ret = After
              /\ \A f \in (DOMAIN After[1]) \ DeliveryFields :
                    After[1][f] = applied.ret[1][f]
              /\ ~ Before[1].isFinalized =>
                    /\ After[1].decisionStatus = StatusOf(data.action)
                    /\ After[1].decisionBy = Some(data.decidedBy)
              /\ After[1].decisionEmailStatus = "FAILED"
              /\ After[1].decisionEmailError = Some(InvalidEmailError)
              /\ \A i \in 1..Len(outbox) : outbox[i].id # last.id

C32_Witness ==
    /\ AnsweredOnInvalidEmail
    /\ ~ Before[1].isFinalized
    /\ After[1].decisionStatus = "APPROVED"
    /\ After[1].isFinalized
    /\ After[1].decisionEmailStatus = "FAILED"
    /\ After[1].decisionEmailError = Some(InvalidEmailError)
    /\ outbox = <<>>

\* the fields a delivery update reports on
DeliveryOutcomeFields ==
    { "decisionEmailStatus", "decisionEmailError", "decisionEmailPreviewUrl",
      "decisionEmailMode", "decisionEmailSentAt" }

\* C33: the delivery update is idempotent.  After updateDecisionEmailDelivery
\* has been applied to a record, applying it again with the same arguments, now
\* or at any later time, leaves the record with the same decisionEmailStatus,
\* error, previewUrl, mode and decisionEmailSentAt, also when sentAt is omitted.
C33_DeliveryUpdateIsIdempotent ==
    (last.op = "updateDecisionEmailDelivery" /\ IsSome(Before)) =>
        \A clock \in ClocksOf(updateDecisionEmailDelivery(store, last.id, last.arg, Unread).reads) :
            LET again == updateDecisionEmailDelivery(store, last.id, last.arg, clock)
            IN  \A f \in DeliveryOutcomeFields :
                    Stored(again.store, last.id)[1][f] = After[1][f]

\* the request in `slot` records the outcome of its mail in this step, and no
\* other request is left waiting for the transport
LastDelivery(slot) ==
    /\ inflight[slot].pc = "sending"
    /\ inflight'[slot].pc = "idle"
    /\ \A k \in DOMAIN inflight' : inflight'[k].pc # "sending"

\* C34: under interleaved decision requests for the same record, once the
\* requests have completed the record's decisionEmailStatus is the delivery
\* outcome of the mail whose subject and body the record holds: the delivery
\* that is recorded last is that of the stored mail, not that of a mail which an
\* earlier, superseded decision generated.
C34_OutcomeIsOfStoredMail ==
    [][ \A slot \in DOMAIN inflight :
            LastDelivery(slot) =>
                LET record == Stored(store', inflight[slot].id)[1]
                    sent == inflight[slot].updated
                IN  /\ record.decisionEmailStatus \in {"SENT", "FAILED"}
                    /\ record.decisionEmailSubject = sent.decisionEmailSubject
                    /\ record.decisionEmailBody = sent.decisionEmailBody ]_vars

\* a mail that an APPROVE or a DENY request hands to the transport: the subject
\* of the approved and of the denied text begins with "Change order "
FinalMail(mail) == mail.subject[1] = "Change order "

\* C35: of interleaved APPROVE and DENY requests for a submitted record that is
\* not finalized exactly one takes effect.  The request that applies first
\* finalizes the record with its teamStatus, decisionStatus,
\* approvedAmount or denialReasonCode and email content; a request that applies
\* after it changes nothing; and every mail a request of either kind hands to
\* the transport carries the subject and body of the first decision, which are
\* the ones the record holds.
C35_OneFinalDecisionTakesEffect ==
    /\ ( /\ last.op = "decision applied"
         /\ last.arg.action \in {"APPROVE", "DENY"} ) =>
            LET data == decisionSchema(last.arg).data
                mail == outbox[Len(outbox)].mail
            IN  /\ IsSome(After)
                /\ After[1].isFinalized
                /\ last.ret = After
                /\ mail.subject = After[1].decisionEmailSubject[1]
                /\ mail.text = After[1].decisionEmailBody[1]
                /\ IF Before[1].isFinalized
                   THEN store = last.pre
                   ELSE /\ After[1].teamStatus = StatusOf(data.action)
                        /\ After[1].decisionStatus = StatusOf(data.action)
                        /\ After[1].decisionBy = Some(data.decidedBy)
                        /\ After[1].approvedAmount =
                              (IF data.action = "APPROVE" THEN Some(data.approvedAmount)
                               ELSE None)
                        /\ After[1].denialReasonCode =
                              (IF data.action = "DENY" THEN Some(data.denialReasonCode)
                               ELSE None)
    /\ \A i \in 1..Len(outbox) :
          FinalMail(outbox[i].mail) =>
              \E j \in 1..Len(store) :
                  /\ store[j].id = outbox[i].id
                  /\ store[j].isFinalized
                  /\ outbox[i].mail.subject = store[j].decisionEmailSubject[1]
                  /\ outbox[i].mail.text = store[j].decisionEmailBody[1]
                  /\ outbox[i].mail.html = store[j].decisionEmailHtml

\* an APPROVE and a DENY request are both waiting for the transport: the
\* approval applied first and both mails are the approval's
C35_Witness ==
    /\ Len(outbox) = 2
    /\ \A slot \in DOMAIN inflight : inflight[slot].pc = "sending"
    /\ {inflight[slot].payload.action : slot \in DOMAIN inflight} = {"APPROVE", "DENY"}
    /\ last.op = "decision applied"
    /\ last.arg.action = "DENY"
    /\ After[1].decisionStatus = "APPROVED"
    /\ After[1].denialReasonCode = None
    /\ outbox[1].mail = outbox[2].mail
    /\ outbox[2].mail.subject[2] = "approved"

\* C36: through the HTTP endpoints decisions reach only submitted records.  In
\* every reachable state a record with status DRAFT or BLOCKED has
\* decisionStatus PENDING, no decisionBy, no decisionAt, no generated email
\* content (to, subject, body, HTML) and decisionEmailStatus PENDING, and no
\* mail was handed to the transport for it.
C36_DecisionsReachOnlySubmitted ==
    \A i \in 1..Len(store) :
        store[i].status \in {"DRAFT", "BLOCKED"} =>
            /\ store[i].decisionStatus = "PENDING"
            /\ store[i].decisionBy = None
            /\ store[i].decisionAt = None
            /\ store[i].decisionEmailTo = None
            /\ store[i].decisionEmailSubject = None
            /\ store[i].decisionEmailBody = None
            /\ store[i].decisionEmailHtml = None
            /\ store[i].decisionEmailStatus = "PENDING"
            /\ store[i].decisionEmailSentAt = None
            /\ ~ store[i].isFinalized
            /\ (\A j \in 1..Len(store) : store[j].id = store[i].id => j = i) =>
                  \A k \in 1..Len(outbox) : outbox[k].id # store[i].id

\* a decision has been applied to the submitted record of a store that
\* holds a blocked record too, and its mail handed to the transport
C36_Witness ==
    /\ last.op = "decision applied"
    /\ Len(outbox) = 1
    /\ \E i \in 1..Len(store) :
          /\ store[i].status = "BLOCKED"
          /\ store[i].decisionStatus = "PENDING"
          /\ store[i].id # last.id
    /\ After[1].status = "SUBMITTED"
    /\ After[1].decisionStatus = "NEEDS_INFO"

DecidedStatuses == {"NEEDS_INFO", "APPROVED", "DENIED"}

\* C37: decisionStatus never returns to PENDING.  A decision that takes effect
\* on a record leaves its decisionStatus in {NEEDS_INFO, APPROVED, DENIED}; a
\* record whose decisionStatus is one of these keeps one of these through every
\* call; and in every reachable state decisionStatus is APPROVED or DENIED
\* exactly when isFinalized is true.
C37_DecisionStatusNeverReopens ==
    /\ \A i \in 1..Len(store) :
          /\ store[i].decisionStatus \in DecidedStatuses \cup {"PENDING"}
          /\ store[i].decisionStatus \in {"APPROVED", "DENIED"} <=> store[i].isFinalized
    /\ Len(store) >= Len(last.pre)
    /\ \A i \in 1..Len(last.pre) :
          last.pre[i].decisionStatus \in DecidedStatuses =>
              store[i].decisionStatus \in DecidedStatuses
    /\ \A action \in {"APPROVE", "DENY", "NEEDS_INFO"} :
          Decided(action) => After[1].decisionStatus = StatusOf(action)

\* a queue update has moved a record that awaits more information back to
\* review, and its decisionStatus is still NEEDS_INFO
C37_Witness ==
    /\ last.op = "updateTeamQueueItem"
    /\ IsSome(Before)
    /\ Before[1].decisionStatus = "NEEDS_INFO"
    /\ Before[1].teamStatus = "NEEDS_INFO"
    /\ After[1].teamStatus = "IN_REVIEW"
    /\ After[1].decisionStatus = "NEEDS_INFO"
    /\ ~ After[1].isFinalized

\* C38: every record that the submit endpoint stores as SUBMITTED has a
\* contractor email that hasValidContractorEmail accepts: a submission whose
\* address the store's grammar rejects is answered 422 and not stored as
\* SUBMITTED, and a stored address is the trimmed one.  So for decisions made
\* through the decision endpoint the short-circuit is never taken: every
\* decision that is applied hands a mail to the transport, and no record gets
\* the error "Invalid contractor email address.".
C38_SubmittedEmailIsValid ==
    /\ \A i \in 1..Len(store) :
          /\ store[i].status = "SUBMITTED" => hasValidContractorEmail(store[i])
          /\ store[i].decisionEmailError # Some(InvalidEmailError)
    /\ ( /\ last.op = "POST submit"
         /\ "contractorEmail" \in DOMAIN last.arg ) =>
            IF isValidEmail(last.arg.contractorEmail)
            THEN last.ret # None =>
                    last.ret[1].input.contractorEmail = Trim(last.arg.contractorEmail)
            ELSE /\ last.http = 422
                 /\ last.ret = None
                 /\ store = last.pre
    /\ ( /\ last.op = "POST decision"
         /\ last.arg # <<>>
         /\ last.http = 200 ) =>
            /\ \E k \in 1..Len(outbox) : outbox[k].id = last.id
            /\ After[1].decisionEmailStatus \in {"SENT", "FAILED"}
            /\ After[1].decisionEmailError \in {r.error : r \in EmailResults}

\* the address arrived padded with blanks and the submitted record was stored
\* with the trimmed one
C38_Witness ==
    /\ last.op = "POST submit"
    /\ last.http = 200
    /\ last.arg.contractorEmail # Trim(last.arg.contractorEmail)
    /\ IsSome(last.ret)
    /\ last.ret[1].status = "SUBMITTED"
    /\ last.ret[1].input.contractorEmail = ValidEmail
    /\ hasValidContractorEmail(last.ret[1])
    /\ store = Append(last.pre, last.ret[1])

\* the places of the store `st` that differ from the same place of `other`
Touched(st, other) == {i \in 1..Len(st) : other[i] # st[i]}

\* C39: listChangeOrders and getChangeOrderById are read-only.  Either leaves
\* the store as it was.  listChangeOrders returns every stored record exactly
\* once, the one stored last first, so that createdAt never increases along the
\* list.  getChangeOrderById returns null exactly when an update by that
\* identifier returns null, and otherwise the record, normalized, at the one
\* place of the store that an update by that identifier modifies.
C39_ReadsAreReadOnly ==
    /\ last.op \in {"listChangeOrders", "getChangeOrderById"} => store = last.pre
    /\ last.op = "listChangeOrders" =>
          /\ Len(last.ret) = Len(store)
          /\ \A i \in 1..Len(store) :
                last.ret[i] = normalizeRecord(store[Len(store) + 1 - i], last.at)
          /\ \A i \in 1..(Len(last.ret) - 1) :
                last.ret[i].createdAt >= last.ret[i + 1].createdAt
    /\ last.op = "getChangeOrderById" =>
          \A delivery \in Deliveries :
              LET update == updateDecisionEmailDelivery(store, last.id, delivery,
                                                        <<now + 1, now + 1>>)
              IN  /\ last.ret = None <=> update.ret = None
                  /\ last.ret = None => update.store = store
                  /\ last.ret # None =>
                        /\ Cardinality(Touched(store, update.store)) = 1
                        /\ \A i \in Touched(store, update.store) :
                              last.ret[1] = normalizeRecord(store[i], last.at)

\* two records created at different times are listed, the later one first
C39_Witness ==
    /\ last.op = "listChangeOrders"
    /\ Len(last.ret) = 2
    /\ last.ret[1].createdAt > last.ret[2].createdAt
    /\ last.ret[1] = normalizeRecord(store[2], last.at)

====
